---- MODULE Spec2Model ----
(***************************************************************************)
(* Travel-Mate (src/web_server.py): the MCP dispatcher handle_mcp, the     *)
(* region extractor, the country resolver, the domestic and international  *)
(* search pipelines and the route resolver.                                *)
(*                                                                         *)
(* A Python str is the sequence of its characters, so that len, `in`,      *)
(* lower, replace and + are what they are in Python.  An ASCII character   *)
(* is the one-letter string of itself; a Hangul syllable is one character  *)
(* too, written as its romanisation (the silent initial as an apostrophe): *)
(* the two syllables of Seoul are Hangul("seo 'ul"), of length 2.  A list  *)
(* is a sequence, and None is the value None below.  The completion service*)
(* and the map, search and directions providers are oracles: every reply,  *)
(* error or timeout they can give is drawn with \E from a bounded set.     *)
(***************************************************************************)
EXTENDS Integers, Sequences, FiniteSets, TLC

(***************************************************************************)
(* Strings                                                                 *)
(***************************************************************************)
\* None, which is no str: no character is "<None>"
None == <<"<None>">>
\* the completion-service client object, when one is configured
AsyncOpenAI == <<"<AsyncOpenAI>">>

\* the str of an ASCII literal: one character per letter
Ascii(s) == [i \in 1..Len(s) |-> SubSeq(s, i, i)]

\* the str of a Hangul literal: one character per blank-separated syllable
RECURSIVE Hangul(_)
Hangul(s) ==
    IF s = "" THEN <<>>
    ELSE LET blanks == { i \in 1..Len(s) : SubSeq(s, i, i) = " " }
             n == IF blanks = {} THEN Len(s) + 1
                  ELSE CHOOSE i \in blanks : \A j \in blanks : i <= j
         IN  <<SubSeq(s, 1, n - 1)>> \o Hangul(SubSeq(s, n + 1, Len(s)))

UpperLetters == Ascii("ABCDEFGHIJKLMNOPQRSTUVWXYZ")
LowerLetters == Ascii("abcdefghijklmnopqrstuvwxyz")

\* one character of str.lower(): A-Z fold to a-z, Hangul and the rest are unchanged
LowerChar(c) ==
    IF \E i \in DOMAIN UpperLetters : UpperLetters[i] = c
    THEN LowerLetters[CHOOSE i \in DOMAIN UpperLetters : UpperLetters[i] = c]
    ELSE c

lower(s) == [i \in 1..Len(s) |-> LowerChar(s[i])]

\* Python's `sub in s` on strings ("" is in every string)
In(sub, s) ==
    \E i \in 1..(Len(s) - Len(sub) + 1) : SubSeq(s, i, i + Len(sub) - 1) = sub

Min(S) == CHOOSE x \in S : \A y \in S : x <= y
Range(f) == { f[i] : i \in DOMAIN f }

(***************************************************************************)
(* Module-level lexicons                                                   *)
(***************************************************************************)
FAST_REGIONS ==
  {
    Hangul("seo 'ul"), Hangul("bu san"), Hangul("'in cheon"),
    Hangul("dae gu"), Hangul("gwang ju"), Hangul("dae jeon"),
    Hangul("'ul san"), Hangul("se jong"), Hangul("su 'won"),
    Hangul("seong nam"), Hangul("go 'yang"), Hangul("'yong 'in"),
    Hangul("'an 'yang"), Hangul("hwa seong"), Hangul("pyeong taek"),
    Hangul("si heung"), Hangul("pa ju"), Hangul("'ui jeong bu"),
    Hangul("gwang myeong"), Hangul("gim po"), Hangul("gun po"),
    Hangul("'i cheon"), Hangul("'o san"), Hangul("gyeong ju"),
    Hangul("gang nam"), Hangul("gang buk"), Hangul("jong ro"),
    Hangul("myeong dong"), Hangul("hong dae"), Hangul("'i tae 'won"),
    Hangul("gwang gyo"), Hangul("bun dang"), Hangul("jam sil"),
    Hangul("hae 'un dae"), Hangul("gwang 'an ri"), Hangul("nam po dong"),
    Hangul("song do"), Hangul("gu 'wol dong"), Hangul("song pa"),
    Hangul("gang dong"), Hangul("je ju"), Hangul("seo gwi po"),
    Hangul("'ae 'wol"), Hangul("seong san"), Hangul("do kyo"),
    Ascii("tokyo"), Hangul("sin ju ku"), Ascii("shinjuku"),
    Hangul("si bu 'ya"), Ascii("shibuya"), Hangul("'a ki ha ba ra"),
    Ascii("akihabara"), Hangul("na ka no"), Ascii("nakano"),
    Hangul("'i ke bu ku ro"), Ascii("ikebukuro"), Hangul("'u 'e no"),
    Ascii("ueno"), Hangul("ha ra ju ku"), Ascii("harajuku"),
    Hangul("ros pon gi"), Ascii("roppongi"), Hangul("'o sa ka"),
    Ascii("osaka"), Hangul("nan ba"), Ascii("namba"), Hangul("do ton bo ri"),
    Ascii("dotonbori"), Hangul("'u me da"), Ascii("umeda"), Hangul("gyo to"),
    Ascii("kyoto"), Hangul("hu si mi"), Ascii("fushimi"), Hangul("gi 'on"),
    Ascii("gion"), Hangul("na go 'ya"), Ascii("nagoya"),
    Hangul("hu ku 'o ka"), Ascii("fukuoka"), Hangul("ha ka ta"),
    Ascii("hakata"), Hangul("sas po ro"), Ascii("sapporo"),
    Hangul("'o ki na 'wa"), Ascii("okinawa"), Hangul("na ha"), Ascii("naha"),
    Hangul("hi ro si ma"), Ascii("hiroshima"), Hangul("go be"),
    Ascii("kobe"), Hangul("'yo ko ha ma"), Ascii("yokohama"),
    Hangul("pa ri"), Ascii("paris"), Hangul("sya reul deu gol"),
    Ascii("charles de gaulle"), Hangul("'e pel tap"), Ascii("eiffel"),
    Hangul("ru beu reu"), Ascii("louvre"), Hangul("mong ma reu teu"),
    Ascii("montmartre"), Hangul("syang jel ri je"), Ascii("champs elysees"),
    Hangul("nyu 'yok"), Ascii("new york"), Hangul("maen hae teun"),
    Ascii("manhattan"), Hangul("beu ru keul rin"), Ascii("brooklyn"),
    Ascii("LA"), Ascii("los angeles"), Hangul("hal ri 'u deu"),
    Ascii("hollywood"), Hangul("san ta mo ni ka"), Ascii("santa monica"),
    Hangul("saen peu ran si seu ko"), Ascii("san francisco"),
    Hangul("ra seu be ga seu"), Ascii("las vegas"), Hangul("si ka go"),
    Ascii("chicago"), Hangul("ma 'i 'ae mi"), Ascii("miami"),
    Hangul("si 'ae teul"), Ascii("seattle"), Hangul("bo seu teon"),
    Ascii("boston"), Hangul("'wo sing teon"), Ascii("washington"),
    Ascii("washington dc"), Hangul("tek sa seu"), Ascii("texas"),
    Hangul("hyu seu teon"), Ascii("houston"), Hangul("dal ra seu"),
    Ascii("dallas"), Hangul("'o seu tin"), Ascii("austin"),
    Hangul("ha 'wa 'i"), Ascii("hawaii"), Hangul("ho nol rul ru"),
    Ascii("honolulu"), Hangul("reon deon"), Ascii("london"),
    Hangul("be reul rin"), Ascii("berlin"), Hangul("ro ma"), Ascii("rome"),
    Hangul("ba reu sel ro na"), Ascii("barcelona"),
    Hangul("'am seu te reu dam"), Ascii("amsterdam"), Hangul("peu ra ha"),
    Ascii("prague"), Hangul("bi 'en na"), Ascii("vienna"),
    Hangul("bang kok"), Ascii("bangkok"), Hangul("sing ga po reu"),
    Ascii("singapore"), Hangul("bal ri"), Ascii("bali"), Hangul("da nang"),
    Ascii("danang"), Hangul("ho chi min"), Ascii("ho chi minh"),
    Hangul("ha no 'i"), Ascii("hanoi"), Hangul("sang ha 'i"),
    Ascii("shanghai"), Hangul("be 'i jing"), Ascii("beijing"),
    Hangul("hong kong"), Ascii("hong kong"), Hangul("si deu ni"),
    Ascii("sydney"), Hangul("mel beo reun"), Ascii("melbourne")
  }

REGION_EXPAND ==
  <<
    <<Hangul("jam sil"), <<Hangul("jam sil"), Hangul("song pa"), Hangul("gang dong")>> >>,
    <<Hangul("gwang gyo"), <<Hangul("gwang gyo"), Hangul("su 'won"), Hangul("'yeong tong")>> >>,
    <<Hangul("bun dang"), <<Hangul("bun dang"), Hangul("seong nam"), Hangul("pan gyo")>> >>,
    <<Hangul("gang nam"), <<Hangul("gang nam"), Hangul("seo cho"), Hangul("'yeok sam")>> >>,
    <<Hangul("hong dae"), <<Hangul("hong dae"), Hangul("ma po"), Hangul("seo gyo")>> >>,
    <<Hangul("hae 'un dae"), <<Hangul("hae 'un dae"), Hangul("bu san")>> >>,
    <<Hangul("gwang 'an ri"), <<Hangul("gwang 'an ri"), Hangul("bu san")>> >>
  >>

INTERNATIONAL_CITIES ==
  {
    Hangul("do kyo"), Ascii("tokyo"), Hangul("'o sa ka"), Ascii("osaka"),
    Hangul("gyo to"), Ascii("kyoto"), Hangul("na ka no"), Ascii("nakano"),
    Hangul("sin ju ku"), Ascii("shinjuku"), Hangul("si bu 'ya"),
    Ascii("shibuya"), Hangul("na go 'ya"), Ascii("nagoya"),
    Hangul("hu ku 'o ka"), Ascii("fukuoka"), Hangul("sas po ro"),
    Ascii("sapporo"), Hangul("'o ki na 'wa"), Ascii("okinawa"),
    Hangul("hi ro si ma"), Ascii("hiroshima"), Hangul("go be"),
    Ascii("kobe"), Hangul("'yo ko ha ma"), Ascii("yokohama"),
    Hangul("ha ka ta"), Ascii("hakata"), Hangul("na ha"), Ascii("naha"),
    Hangul("pa ri"), Ascii("paris"), Hangul("sya reul deu gol"),
    Ascii("charles"), Hangul("'e pel tap"), Ascii("eiffel"),
    Hangul("nyu 'yok"), Ascii("new york"), Ascii("LA"), Ascii("los angeles"),
    Hangul("saen peu ran si seu ko"), Ascii("san francisco"),
    Hangul("ra seu be ga seu"), Ascii("las vegas"), Hangul("si ka go"),
    Ascii("chicago"), Hangul("ma 'i 'ae mi"), Ascii("miami"),
    Hangul("si 'ae teul"), Ascii("seattle"), Hangul("bo seu teon"),
    Ascii("boston"), Hangul("'wo sing teon"), Ascii("washington"),
    Hangul("tek sa seu"), Ascii("texas"), Hangul("hyu seu teon"),
    Ascii("houston"), Hangul("dal ra seu"), Ascii("dallas"),
    Hangul("'o seu tin"), Ascii("austin"), Hangul("ha 'wa 'i"),
    Ascii("hawaii"), Hangul("ho nol rul ru"), Ascii("honolulu"),
    Hangul("reon deon"), Ascii("london"), Hangul("be reul rin"),
    Ascii("berlin"), Hangul("ro ma"), Ascii("rome"), Hangul("bang kok"),
    Ascii("bangkok"), Hangul("sing ga po reu"), Ascii("singapore"),
    Hangul("hong kong"), Ascii("hong kong")
  }

CITY_TO_COUNTRY ==
  <<
    <<Hangul("do kyo"), Ascii("Japan")>>, <<Ascii("tokyo"), Ascii("Japan")>>,
    <<Hangul("'o sa ka"), Ascii("Japan")>>, <<Ascii("osaka"), Ascii("Japan")>>,
    <<Hangul("gyo to"), Ascii("Japan")>>, <<Ascii("kyoto"), Ascii("Japan")>>,
    <<Hangul("na go 'ya"), Ascii("Japan")>>, <<Ascii("nagoya"), Ascii("Japan")>>,
    <<Hangul("hu ku 'o ka"), Ascii("Japan")>>, <<Ascii("fukuoka"), Ascii("Japan")>>,
    <<Hangul("sas po ro"), Ascii("Japan")>>, <<Ascii("sapporo"), Ascii("Japan")>>,
    <<Hangul("'o ki na 'wa"), Ascii("Japan")>>, <<Ascii("okinawa"), Ascii("Japan")>>,
    <<Hangul("hi ro si ma"), Ascii("Japan")>>, <<Ascii("hiroshima"), Ascii("Japan")>>,
    <<Hangul("go be"), Ascii("Japan")>>, <<Ascii("kobe"), Ascii("Japan")>>,
    <<Hangul("'yo ko ha ma"), Ascii("Japan")>>, <<Ascii("yokohama"), Ascii("Japan")>>,
    <<Hangul("sin ju ku"), Ascii("Japan")>>, <<Ascii("shinjuku"), Ascii("Japan")>>,
    <<Hangul("si bu 'ya"), Ascii("Japan")>>, <<Ascii("shibuya"), Ascii("Japan")>>,
    <<Hangul("na ka no"), Ascii("Japan")>>, <<Ascii("nakano"), Ascii("Japan")>>,
    <<Hangul("ha ka ta"), Ascii("Japan")>>, <<Ascii("hakata"), Ascii("Japan")>>,
    <<Hangul("na ha"), Ascii("Japan")>>, <<Ascii("naha"), Ascii("Japan")>>,
    <<Hangul("'a ki ha ba ra"), Ascii("Japan")>>, <<Ascii("akihabara"), Ascii("Japan")>>,
    <<Hangul("'i ke bu ku ro"), Ascii("Japan")>>, <<Ascii("ikebukuro"), Ascii("Japan")>>,
    <<Hangul("'u 'e no"), Ascii("Japan")>>, <<Ascii("ueno"), Ascii("Japan")>>,
    <<Hangul("ha ra ju ku"), Ascii("Japan")>>, <<Ascii("harajuku"), Ascii("Japan")>>,
    <<Hangul("ros pon gi"), Ascii("Japan")>>, <<Ascii("roppongi"), Ascii("Japan")>>,
    <<Hangul("nan ba"), Ascii("Japan")>>, <<Ascii("namba"), Ascii("Japan")>>,
    <<Hangul("do ton bo ri"), Ascii("Japan")>>, <<Ascii("dotonbori"), Ascii("Japan")>>,
    <<Hangul("'u me da"), Ascii("Japan")>>, <<Ascii("umeda"), Ascii("Japan")>>,
    <<Hangul("hu si mi"), Ascii("Japan")>>, <<Ascii("fushimi"), Ascii("Japan")>>,
    <<Hangul("gi 'on"), Ascii("Japan")>>, <<Ascii("gion"), Ascii("Japan")>>,
    <<Hangul("nyu 'yok"), Ascii("USA")>>, <<Ascii("new york"), Ascii("USA")>>,
    <<Ascii("LA"), Ascii("USA")>>, <<Ascii("los angeles"), Ascii("USA")>>,
    <<Hangul("saen peu ran si seu ko"), Ascii("USA")>>,
    <<Ascii("san francisco"), Ascii("USA")>>, <<Hangul("ra seu be ga seu"), Ascii("USA")>>,
    <<Ascii("las vegas"), Ascii("USA")>>, <<Hangul("si ka go"), Ascii("USA")>>,
    <<Ascii("chicago"), Ascii("USA")>>, <<Hangul("ma 'i 'ae mi"), Ascii("USA")>>,
    <<Ascii("miami"), Ascii("USA")>>, <<Hangul("si 'ae teul"), Ascii("USA")>>,
    <<Ascii("seattle"), Ascii("USA")>>, <<Hangul("bo seu teon"), Ascii("USA")>>,
    <<Ascii("boston"), Ascii("USA")>>, <<Hangul("'wo sing teon"), Ascii("USA")>>,
    <<Ascii("washington"), Ascii("USA")>>, <<Hangul("tek sa seu"), Ascii("USA")>>,
    <<Ascii("texas"), Ascii("USA")>>, <<Hangul("hyu seu teon"), Ascii("USA")>>,
    <<Ascii("houston"), Ascii("USA")>>, <<Hangul("dal ra seu"), Ascii("USA")>>,
    <<Ascii("dallas"), Ascii("USA")>>, <<Hangul("'o seu tin"), Ascii("USA")>>,
    <<Ascii("austin"), Ascii("USA")>>, <<Hangul("ha 'wa 'i"), Ascii("USA")>>,
    <<Ascii("hawaii"), Ascii("USA")>>, <<Hangul("ho nol rul ru"), Ascii("USA")>>,
    <<Ascii("honolulu"), Ascii("USA")>>, <<Hangul("maen hae teun"), Ascii("USA")>>,
    <<Ascii("manhattan"), Ascii("USA")>>, <<Hangul("beu ru keul rin"), Ascii("USA")>>,
    <<Ascii("brooklyn"), Ascii("USA")>>, <<Hangul("hal ri 'u deu"), Ascii("USA")>>,
    <<Ascii("hollywood"), Ascii("USA")>>, <<Hangul("san ta mo ni ka"), Ascii("USA")>>,
    <<Ascii("santa monica"), Ascii("USA")>>, <<Hangul("pa ri"), Ascii("France")>>,
    <<Ascii("paris"), Ascii("France")>>, <<Hangul("reon deon"), Ascii("UK")>>,
    <<Ascii("london"), Ascii("UK")>>, <<Hangul("be reul rin"), Ascii("Germany")>>,
    <<Ascii("berlin"), Ascii("Germany")>>, <<Hangul("ro ma"), Ascii("Italy")>>,
    <<Ascii("rome"), Ascii("Italy")>>, <<Hangul("ba reu sel ro na"), Ascii("Spain")>>,
    <<Ascii("barcelona"), Ascii("Spain")>>, <<Hangul("bang kok"), Ascii("Thailand")>>,
    <<Ascii("bangkok"), Ascii("Thailand")>>,
    <<Hangul("sing ga po reu"), Ascii("Singapore")>>,
    <<Ascii("singapore"), Ascii("Singapore")>>,
    <<Hangul("hong kong"), Ascii("Hong Kong")>>,
    <<Ascii("hong kong"), Ascii("Hong Kong")>>, <<Hangul("sang ha 'i"), Ascii("China")>>,
    <<Ascii("shanghai"), Ascii("China")>>, <<Hangul("be 'i jing"), Ascii("China")>>,
    <<Ascii("beijing"), Ascii("China")>>, <<Hangul("da nang"), Ascii("Vietnam")>>,
    <<Ascii("danang"), Ascii("Vietnam")>>, <<Hangul("ho chi min"), Ascii("Vietnam")>>,
    <<Ascii("ho chi minh"), Ascii("Vietnam")>>, <<Hangul("ha no 'i"), Ascii("Vietnam")>>,
    <<Ascii("hanoi"), Ascii("Vietnam")>>, <<Hangul("bal ri"), Ascii("Indonesia")>>,
    <<Ascii("bali"), Ascii("Indonesia")>>, <<Hangul("si deu ni"), Ascii("Australia")>>,
    <<Ascii("sydney"), Ascii("Australia")>>,
    <<Hangul("mel beo reun"), Ascii("Australia")>>,
    <<Ascii("melbourne"), Ascii("Australia")>>
  >>

INTERNATIONAL_KEYWORDS ==
  {
    Hangul("'yeok"), Ascii("station"), Ascii("airport"), Hangul("gong hang")
  }

(***************************************************************************)
(* State                                                                   *)
(***************************************************************************)
VARIABLES
    extract,        \* one call of extract_regions_hybrid: arguments, reply, result
    route,          \* one call of get_route_info: arguments, replies, result
    intl,           \* one call of search_international: arguments, replies, result
    domestic,       \* one call of search_domestic: arguments, replies, result
    mcp,            \* one request to handle_mcp: request, replies, response
    server,         \* the running server: module-level state, requests in flight
    repeat,         \* two calls of extract_regions_hybrid with one text and reply
    batch,          \* one call of filter_relevant_places_batch: names, reply, prompts, result
    firstCall,      \* get_country_for_city: the first call made and its result
    lastCall,       \* get_country_for_city: the latest call made and its result
    cityWrites      \* the items the process has written to the dict CITY_TO_COUNTRY

countryVars == <<firstCall, lastCall, cityWrites>>
vars == <<extract, route, intl, domestic, mcp, server, repeat, batch, countryVars>>
exceptExtract == <<route, intl, domestic, mcp, server, repeat, batch, countryVars>>
exceptRoute == <<extract, intl, domestic, mcp, server, repeat, batch, countryVars>>
exceptIntl == <<extract, route, domestic, mcp, server, repeat, batch, countryVars>>
exceptDomestic == <<extract, route, intl, mcp, server, repeat, batch, countryVars>>
exceptMcp == <<extract, route, intl, domestic, server, repeat, batch, countryVars>>
exceptCountry == <<extract, route, intl, domestic, mcp, server, repeat, batch>>
exceptServer == <<extract, route, intl, domestic, mcp, repeat, batch, countryVars>>
exceptRepeat == <<extract, route, intl, domestic, mcp, server, batch, countryVars>>
exceptBatch == <<extract, route, intl, domestic, mcp, server, repeat, countryVars>>

(***************************************************************************)
(* Bounds                                                                  *)
(***************************************************************************)
MaxRegionLen == 2
\* the requests the server handles in one run
MaxRequests == 2
MaxTextWords == 3

RECURSIVE StringsUpTo(_, _)
StringsUpTo(A, n) ==
    IF n = 0 THEN {<<>>}
    ELSE LET S == StringsUpTo(A, n - 1) IN S \cup { Append(s, c) : s \in S, c \in A }

\* the texts of at most n words of W, separated by blanks
RECURSIVE TextsUpTo(_, _)
TextsUpTo(W, n) ==
    IF n = 0 THEN {<<>>}
    ELSE LET S == TextsUpTo(W, n - 1)
         IN  S \cup W \cup { s \o Ascii(" ") \o w : s \in S \ {<<>>}, w \in W }

(***************************************************************************)
(* Country Resolver: get_country_for_city                                  *)
(***************************************************************************)
\* dict lookups on a table held as the sequence of its (key, value) items,
\* in insertion order
Keys(t) == { t[i][1] : i \in DOMAIN t }
Lookup(t, k) == t[CHOOSE i \in DOMAIN t : t[i][1] = k][2]

\* the dict CITY_TO_COUNTRY as the process holds it: the literal, then
\* whatever has been written to it since
CityTable == CITY_TO_COUNTRY \o cityWrites

\* a variant whose substring scan only looks for keys contained in the region
get_country_for_city_contained_only(city_name) ==
    LET city_lower == lower(city_name)
        partial == { i \in DOMAIN CityTable : In(CityTable[i][1], city_lower) }
    IN  IF city_lower \in Keys(CityTable) THEN Lookup(CityTable, city_lower)
        ELSE IF city_name \in Keys(CityTable) THEN Lookup(CityTable, city_name)
        ELSE IF partial # {} THEN CityTable[Min(partial)][2]
        ELSE None
get_country_for_city(city_name) ==
    LET city_lower == lower(city_name)
        partial == { i \in DOMAIN CityTable :
                        \/ In(CityTable[i][1], city_lower)
                        \/ In(city_lower, CityTable[i][1]) }
    IN  IF city_lower \in Keys(CityTable) THEN Lookup(CityTable, city_lower)
        ELSE IF city_name \in Keys(CityTable) THEN Lookup(CityTable, city_name)
        ELSE IF partial # {} THEN CityTable[Min(partial)][2]
        ELSE None

\* the region strings the resolver is called with
RegionInputs ==
    StringsUpTo({"L", "a", "do"}, MaxRegionLen)
    \cup { Hangul("do kyo"), Ascii("Tokyo"), Ascii("TOKYO"), Hangul("do kyo 'yeok"),
           Hangul("'yeok"), Ascii("LA"), Ascii("la"),
           Ascii("LA ") \o Hangul("mas jip"), Hangul("gang nam"),
           Ascii("new york city"), Ascii("york"), Ascii("paris"),
           Ascii("Paris, Texas"), Hangul("tek sa seu") \o Ascii(" ") \o Hangul("pa ri"),
           Hangul("hong kong") }

NoCall == [made |-> FALSE, arg |-> <<>>, result |-> None]

\* a variant that memoises a substring match under the queried name
GetCountryForCityMemo ==
    \E r \in RegionInputs :
        LET c == get_country_for_city(r)
            call == [made |-> TRUE, arg |-> r, result |-> c]
        IN  /\ lastCall' = call
            /\ firstCall' = IF firstCall.made THEN firstCall ELSE call
            /\ cityWrites' = IF c # None /\ lower(r) \notin Keys(CityTable)
                             THEN Append(cityWrites, <<lower(r), c>>)
                             ELSE cityWrites
            /\ UNCHANGED exceptCountry

\* one call get_country_for_city(r); the function reads CITY_TO_COUNTRY and
\* writes nothing
GetCountryForCity ==
    \E r \in RegionInputs :
        LET call == [made |-> TRUE, arg |-> r, result |-> get_country_for_city(r)]
        IN  /\ lastCall' = call
            /\ firstCall' = IF firstCall.made THEN firstCall ELSE call
            /\ UNCHANGED <<cityWrites, exceptCountry>>

IdleCountry ==
    /\ cityWrites = <<>>
    /\ firstCall = NoCall
    /\ lastCall = NoCall

(***************************************************************************)
(* Region Extractor: extract_regions_hybrid                                *)
(***************************************************************************)
MaxLenOf(S) == CHOOSE n \in { Len(x) : x \in S } : \A y \in S : Len(y) <= n

\* list(set(xs)) followed by sort(key=len, reverse=True): the set is listed in
\* an order of the interpreter's choosing and the sort is stable, so every
\* order of non-increasing length can come out
RECURSIVE SortedByLenDesc(_)
SortedByLenDesc(S) ==
    IF S = {} THEN {<<>>}
    ELSE UNION { { <<x>> \o q : q \in SortedByLenDesc(S \ {x}) } :
                 x \in { y \in S : Len(y) = MaxLenOf(S) } }

\* xs[:n]
Take(xs, n) == SubSeq(xs, 1, IF Len(xs) < n THEN Len(xs) ELSE n)

\* the first stage: the lexicon entries found in the text, case-insensitively
FastRegionsIn(text) ==
    LET text_lower == lower(text)
    IN  { region \in FAST_REGIONS : In(lower(region), text_lower) }

\* the replies of the completion service to the extraction prompt: an error
\* (the call raises or times out, or the content is no JSON object with a
\* list of strings under 'regions'), or the regions it names
ReplyError == [ok |-> FALSE, regions |-> {}]
ReplyRegions(S) == [ok |-> TRUE, regions |-> S]

\* a variant that returns the completion service's regions alone
extract_regions_hybrid_gpt_only(text, client, reply) ==
    LET found == FastRegionsIn(text)
    IN  IF client = None \/ ~reply.ok
        THEN { Take(q, 3) : q \in SortedByLenDesc(found) }
        ELSE { Take(q, 3) : q \in SortedByLenDesc(reply.regions) }

\* a variant that appends the completion service's regions to the first three
\* lexicon matches
extract_regions_hybrid_appended(text, client, reply) ==
    LET found == FastRegionsIn(text)
    IN  IF client = None \/ ~reply.ok
        THEN { Take(q, 3) : q \in SortedByLenDesc(found) }
        ELSE { Take(q, 3) \o g : q \in SortedByLenDesc(found),
                                 g \in SortedByLenDesc(reply.regions) }

\* a variant that sorts the regions shortest first
extract_regions_hybrid_shortest_first(text, client, reply) ==
    LET found == FastRegionsIn(text)
        all == IF client = None \/ ~reply.ok THEN found ELSE found \cup reply.regions
    IN  { Take([i \in 1..Len(q) |-> q[Len(q) + 1 - i]], 3) : q \in SortedByLenDesc(all) }

\* the lists extract_regions_hybrid(text, client) can return when the
\* completion service answers `reply`
extract_regions_hybrid(text, client, reply) ==
    LET found == FastRegionsIn(text)
    IN  IF client = None \/ ~reply.ok
        THEN { Take(q, 3) : q \in SortedByLenDesc(found) }
        ELSE { Take(q, 3) : q \in SortedByLenDesc(found \cup reply.regions) }

ExtractWords ==
    { Hangul("seo 'ul"), Hangul("hae 'un dae"), Ascii("Tokyo"), Ascii("las vegas") }
ExtractTexts == TextsUpTo(ExtractWords, MaxTextWords)
GptRegionPool ==
    { Hangul("sung sil dae"), Hangul("seo 'ul teuk byeol si"), Hangul("do kyo"),
      Hangul("seo 'ul") }
ExtractReplies == {ReplyError} \cup { ReplyRegions(S) : S \in SUBSET GptRegionPool }
Clients == {None, AsyncOpenAI}

NoExtract == [pc |-> "idle", text |-> <<>>, client |-> None, reply |-> ReplyError,
              result |-> <<>>]

\* one call extract_regions_hybrid(text, client)
ExtractRegionsHybrid ==
    /\ extract.pc = "call"
    /\ \E result \in extract_regions_hybrid(extract.text, extract.client, extract.reply) :
          extract' = [extract EXCEPT !.pc = "done", !.result = result]
    /\ UNCHANGED exceptExtract

IdleExtract == extract = NoExtract

(***************************************************************************)
(* Values shared by the components                                         *)
(***************************************************************************)
\* a JSON number where a str is expected, and a key that is not there
JsonNumber == <<"<number>">>
Absent == <<"<absent>">>
IsStr(v) == v \notin {None, JsonNumber, Absent}
\* Python truth of a value that is a str or None
Truthy(v) == v # None /\ v # <<>>

Digits == Ascii("0123456789")
\* str(n) of an int n >= 0
RECURSIVE Str(_)
Str(n) == IF n < 10 THEN <<Digits[n + 1]>> ELSE Str(n \div 10) \o <<Digits[(n % 10) + 1]>>

\* urllib.parse.quote: letters, digits and _.-~/ stay, every other character
\* becomes the %-escape of its UTF-8 bytes (written here as one token, "%"
\* followed by the character; "%20" for the blank)
SafeChars ==
    Range(Ascii("ABCDEFGHIJKLMNOPQRSTUVWXYZabcdefghijklmnopqrstuvwxyz0123456789_.-~/"))
QuoteChar(c) == IF c \in SafeChars THEN c ELSE IF c = " " THEN "%20" ELSE "%" \o c
quote(s) == [i \in 1..Len(s) |-> QuoteChar(s[i])]

\* A result text is the sequence of its parts in order: a literal stretch of
\* characters, or a URL or summary line held by its components.  Line breaks
\* and the "---" rules between the parts are left out.
Lit(s) == [k |-> "lit", s |-> s]

(***************************************************************************)
(* translate_to_english                                                    *)
(***************************************************************************)
\* the replies of the completion service to the translation prompt: an error
\* (the call raises or times out, or the content is no JSON object), or a JSON
\* object whose 'english' is a str, is no str, or is not there
TranslateError == [ok |-> FALSE, english |-> Absent]
TranslateReply(v) == [ok |-> TRUE, english |-> v]

translate_to_english(text, client, reply) ==
    IF client = None THEN text
    ELSE IF ~reply.ok THEN text
    ELSE IF reply.english = Absent THEN text
    ELSE reply.english

(***************************************************************************)
(* Route Resolver: is_international_route, get_xy, convert_coords,         *)
(* get_route_info                                                          *)
(***************************************************************************)
is_international_route(start, goal) ==
    LET start_lower == lower(start)
        goal_lower == lower(goal)
    IN  \/ \E city \in INTERNATIONAL_CITIES :
              In(city, start_lower) \/ In(city, goal_lower)
        \/ \E city \in INTERNATIONAL_CITIES, keyword \in INTERNATIONAL_KEYWORDS :
              \/ In(city, start_lower) /\ In(keyword, start_lower)
              \/ In(city, goal_lower) /\ In(keyword, goal_lower)

\* a reply of a provider: the request raises (a timeout, a body that is no
\* JSON or lacks a field that is read), or an HTTP status and the documents
ReplyRaise == [kind |-> "raise", status |-> 0, documents |-> <<>>]
ReplyHttp(status, documents) == [kind |-> "http", status |-> status, documents |-> documents]

NoXY == <<None, None, None>>
StationName == Hangul("'yeok")
TerminalName == Hangul("teo mi neol")

\* the loop of get_xy over its three suffixes (" yeok", " teomineol", ""):
\* replies[i] answers the i-th query
RECURSIVE GetXYFrom(_, _)
GetXYFrom(replies, i) ==
    IF i > Len(replies) THEN NoXY
    ELSE LET resp == replies[i]
             data == resp.documents
             stations == { j \in DOMAIN data :
                              \/ In(StationName, data[j].place_name)
                              \/ In(TerminalName, data[j].place_name) }
         IN  IF resp.kind = "raise" THEN NoXY
             ELSE IF resp.status # 200 THEN GetXYFrom(replies, i + 1)
             ELSE IF stations # {}
                  THEN LET p == data[Min(stations)] IN <<p.x, p.y, p.place_name>>
             ELSE IF data # <<>> THEN <<data[1].x, data[1].y, data[1].place_name>>
             ELSE GetXYFrom(replies, i + 1)

get_xy(keyword, KAKAO_API_KEY, replies) ==
    LET keyword_lower == lower(keyword)
    IN  IF \E city \in INTERNATIONAL_CITIES : In(city, keyword_lower) THEN NoXY
        ELSE IF KAKAO_API_KEY = <<>> THEN NoXY
        ELSE GetXYFrom(replies, 1)

\* a variant that keeps the coordinates it was given when the provider
\* converts nothing
convert_coords_or_given(lon, lat, reply) ==
    IF reply.kind = "raise" THEN <<lon, lat>>
    ELSE IF reply.documents # <<>>
         THEN <<reply.documents[1].x, reply.documents[1].y>>
         ELSE <<lon, lat>>
convert_coords(lon, lat, reply) ==
    IF reply.kind = "raise" THEN <<None, None>>
    ELSE IF reply.documents # <<>>
         THEN <<reply.documents[1].x, reply.documents[1].y>>
         ELSE <<None, None>>

\* the reply of the completion service to the domestic/international prompt:
\* an error, or a JSON object (is_international is False when the key is
\* not there)
ClassifyError == [ok |-> FALSE, is_international |-> FALSE]
ClassifyReply(b) == [ok |-> TRUE, is_international |-> b]

\* the reply of the directions provider: routes[0]["summary"]
NaviRoute(duration, distance) == [duration |-> duration, distance |-> distance]

\* a variant that prints the whole duration in minutes after the hours
time_str_total_minutes(sec) ==
    LET h == sec \div 3600
        m == sec \div 60
    IN  IF h > 0
        THEN Str(h) \o Hangul("si gan") \o Ascii(" ") \o Str(m) \o Hangul("bun")
        ELSE Str(m) \o Hangul("bun")
time_str(sec) ==
    LET h == sec \div 3600
        m == (sec % 3600) \div 60
    IN  IF h > 0
        THEN Str(h) \o Hangul("si gan") \o Ascii(" ") \o Str(m) \o Hangul("bun")
        ELSE Str(m) \o Hangul("bun")

GoogleDirLink(origin, destination, travelmode) ==
    [k |-> "url", site |-> "https://www.google.com/maps/dir/", api |-> 1,
     origin |-> origin, destination |-> destination, travelmode |-> travelmode]

KakaoTransitLink(ksx, ksy, kex, key, sname, gname) ==
    [k |-> "url", site |-> "https://map.kakao.com/", target |-> "traffic",
     rt |-> <<ksx, ksy, kex, key>>, rt1 |-> quote(sname), rt2 |-> quote(gname)]

\* the driving summary: the names, the duration and the distance in metres
\* (printed as kilometres with one decimal)
CarSummary(sname, gname, sec, dist) ==
    [k |-> "car", sname |-> sname, gname |-> gname, time |-> time_str(sec),
     dist |-> dist]

RouteHeader(start, goal) == Lit(Ascii("# ") \o start \o Ascii(" -> ") \o goal)
CarHeading == Lit(Ascii("## ") \o Hangul("ja dong cha") \o Ascii(" ") \o Hangul("gyeong ro"))
TransitHeading ==
    Lit(Ascii("## ") \o Hangul("dae jung gyo tong") \o Ascii(" ") \o Hangul("gyeong ro"))
RouteFailed == Lit(Hangul("gyeong ro") \o Ascii(" ") \o Hangul("gye san") \o Ascii(" ") \o Hangul("sil pae"))
PlaceNotFound ==
    Lit(Hangul("jang so reul") \o Ascii(" ") \o Hangul("chaj 'eul") \o Ascii(" ")
        \o Hangul("su") \o Ascii(" ") \o Hangul("'eops seup ni da"))

\* what a call gives: the text it returns, or an exception
Returned(text) == [raised |-> FALSE, text |-> text]
Raised == [raised |-> TRUE, text |-> <<>>]

\* the oracle of one call of get_route_info: the replies to the calls it makes
NoRouteOracle ==
    [classify |-> ClassifyError, trStart |-> TranslateError, trGoal |-> TranslateError,
     geoStart |-> <<>>, geoGoal |-> <<>>, navi |-> ReplyRaise,
     convStart |-> ReplyRaise, convGoal |-> ReplyRaise]

\* the branch taken: the fast path, else the completion service's answer,
\* and international when the request fails (with no client, client.chat
\* raises AttributeError inside the try)
\* a variant whose except clause falls back to the domestic branch
IsIntlDomesticOnError(start, goal, client, o) ==
    IF is_international_route(start, goal) THEN TRUE
    ELSE IF client = None THEN FALSE
    ELSE IF ~o.classify.ok THEN FALSE
    ELSE o.classify.is_international
IsIntl(start, goal, client, o) ==
    IF is_international_route(start, goal) THEN TRUE
    ELSE IF client = None THEN TRUE
    ELSE IF ~o.classify.ok THEN TRUE
    ELSE o.classify.is_international

get_route_info(start, goal, start_original, goal_original, client, KAKAO_API_KEY, o) ==
    IF ~IsStr(start) \/ ~IsStr(goal) THEN Raised
    ELSE IF IsIntl(start, goal, client, o)
    THEN LET start_en == translate_to_english(start_original, client, o.trStart)
             goal_en == translate_to_english(goal_original, client, o.trGoal)
         IN  IF ~IsStr(start_en) \/ ~IsStr(goal_en) THEN Raised
             ELSE LET safe_start == quote(start_en)
                      safe_goal == quote(goal_en)
                  IN  Returned(<< RouteHeader(start, goal),
                                  CarHeading,
                                  GoogleDirLink(safe_start, safe_goal, "driving"),
                                  TransitHeading,
                                  GoogleDirLink(safe_start, safe_goal, "transit") >>)
    ELSE LET s == get_xy(start, KAKAO_API_KEY, o.geoStart)
             e == get_xy(goal, KAKAO_API_KEY, o.geoGoal)
             sx == s[1]
             sy == s[2]
             sname == s[3]
             ex == e[1]
             ey == e[2]
             gname == e[3]
         IN  IF Truthy(sx) /\ Truthy(ex)
             THEN LET car ==
                          IF /\ o.navi.kind = "http"
                             /\ o.navi.status = 200
                             /\ o.navi.documents # <<>>
                          THEN LET summary == o.navi.documents[1]
                               IN  << CarSummary(sname, gname, summary.duration,
                                                 summary.distance) >>
                          ELSE <<>>
                      ks == convert_coords(sx, sy, o.convStart)
                      ke == convert_coords(ex, ey, o.convGoal)
                      transit ==
                          IF Truthy(ks[1]) /\ Truthy(ke[1])
                          THEN << KakaoTransitLink(ks[1], ks[2], ke[1], ke[2],
                                                   sname, gname) >>
                          ELSE <<>>
                      results == car \o transit
                  IN  IF results # <<>>
                      THEN Returned(<<RouteHeader(start, goal)>> \o results)
                      ELSE Returned(<<RouteFailed>>)
             ELSE Returned(<<PlaceNotFound>>)

\* what the inputs and the oracles of get_route_info are drawn from
RouteNames ==
    { Ascii("LA"), Hangul("do kyo"), Ascii("Osaka"), Hangul("gang nam") }
Originals(name) == { name, name \o Ascii(" airport") }
KakaoKeys == { <<>>, Ascii("key") }

TranslateReplies ==
    { TranslateError, TranslateReply(Absent), TranslateReply(JsonNumber),
      TranslateReply(Ascii("Los Angeles")), TranslateReply(Ascii("Tokyo")) }
ClassifyReplies == { ClassifyError, ClassifyReply(TRUE), ClassifyReply(FALSE) }

Doc(name) == [x |-> Ascii("127.03"), y |-> Ascii("37.49"), place_name |-> name]
PlainDoc == Doc(Hangul("gang nam gu cheong"))
StationDoc == Doc(Hangul("gang nam 'yeok"))
TerminalDoc == Doc(Hangul("dong seo 'ul teo mi neol"))
GeoOracles ==
    { <<ReplyRaise, ReplyRaise, ReplyRaise>>,
      <<ReplyHttp(200, <<PlainDoc>>), ReplyRaise, ReplyRaise>>,
      <<ReplyHttp(200, <<PlainDoc, StationDoc>>), ReplyRaise, ReplyRaise>>,
      <<ReplyHttp(500, <<>>), ReplyHttp(200, <<>>), ReplyHttp(200, <<TerminalDoc>>)>>,
      <<ReplyHttp(200, <<>>), ReplyHttp(200, <<PlainDoc>>), ReplyRaise>>,
      <<ReplyHttp(200, <<>>), ReplyHttp(500, <<>>), ReplyHttp(200, <<>>)>> }
Durations == { 59, 3599, 3600, 3661, 7325 }
NaviReplies ==
    { ReplyRaise, ReplyHttp(500, <<>>), ReplyHttp(200, <<>>) }
    \cup { ReplyHttp(200, <<NaviRoute(d, 12345)>>) : d \in Durations }
ConvReplies ==
    { ReplyRaise, ReplyHttp(200, <<>>),
      ReplyHttp(200, <<[x |-> Ascii("507000"), y |-> Ascii("1110000")]>>) }

RoutePools ==
    [classify |-> ClassifyReplies, translate |-> TranslateReplies, geo |-> GeoOracles,
     navi |-> NaviReplies, conv |-> ConvReplies]

\* the oracles of a call over the pools P: a reply for each call that is made,
\* and none for the calls that are not
RouteOraclesOver(start, goal, client, KAKAO_API_KEY, P) ==
    LET classified ==
            IF is_international_route(start, goal) \/ client = None
            THEN { NoRouteOracle }
            ELSE { [NoRouteOracle EXCEPT !.classify = c] : c \in P.classify }
        translated(o) ==
            IF client = None THEN { o }
            ELSE { [o EXCEPT !.trStart = ts, !.trGoal = tg] :
                   ts \in P.translate, tg \in P.translate }
        geocoded(o) ==
            LET gs == IF KAKAO_API_KEY = <<>> \/ \E city \in INTERNATIONAL_CITIES : In(city, lower(start))
                      THEN { <<>> } ELSE P.geo
                ge == IF KAKAO_API_KEY = <<>> \/ \E city \in INTERNATIONAL_CITIES : In(city, lower(goal))
                      THEN { <<>> } ELSE P.geo
            IN  { [o EXCEPT !.geoStart = s, !.geoGoal = e] : s \in gs, e \in ge }
        routed(o) ==
            IF /\ Truthy(get_xy(start, KAKAO_API_KEY, o.geoStart)[1])
               /\ Truthy(get_xy(goal, KAKAO_API_KEY, o.geoGoal)[1])
            THEN { [o EXCEPT !.navi = n, !.convStart = cs, !.convGoal = cg] :
                   n \in P.navi, cs \in P.conv, cg \in P.conv }
            ELSE { o }
    IN  UNION { IF IsIntl(start, goal, client, o)
                THEN translated(o)
                ELSE UNION { routed(g) : g \in geocoded(o) } :
                o \in classified }
RouteOracles(start, goal, client, KAKAO_API_KEY) ==
    RouteOraclesOver(start, goal, client, KAKAO_API_KEY, RoutePools)

NoRoute ==
    [pc |-> "idle", start |-> <<>>, goal |-> <<>>, start_original |-> <<>>,
     goal_original |-> <<>>, client |-> None, KAKAO_API_KEY |-> <<>>,
     oracle |-> NoRouteOracle, result |-> Returned(<<>>)]
IdleRoute == route = NoRoute

\* one call get_route_info(start, goal, start_original, goal_original, client)
GetRouteInfo ==
    /\ route.pc = "call"
    /\ \E o \in RouteOracles(route.start, route.goal, route.client, route.KAKAO_API_KEY) :
          route' = [route EXCEPT
                       !.pc = "done",
                       !.oracle = o,
                       !.result = get_route_info(route.start, route.goal,
                                                 route.start_original,
                                                 route.goal_original, route.client,
                                                 route.KAKAO_API_KEY, o)]
    /\ UNCHANGED exceptRoute

(***************************************************************************)
(* International Search Pipeline: search_international                     *)
(***************************************************************************)
MaxListed == 10

SearchNoResult(keyword) ==
    Lit(Ascii("'") \o keyword \o Ascii("' ") \o Hangul("geom saek") \o Ascii(" ")
        \o Hangul("gyeol gwa") \o Ascii(" ") \o Hangul("'eops 'eum"))
\* "geomsaek oryu: " followed by the text of the exception
SearchError == [k |-> "error", s |-> Hangul("geom saek") \o Ascii(" ") \o Hangul("'o ryu")]
SearchHeader(region_display, keyword, n) ==
    Lit(Ascii("# ") \o region_display \o Ascii(" ") \o keyword \o Ascii(" ")
        \o Hangul("geom saek") \o Ascii(" ") \o Hangul("gyeol gwa") \o Ascii(" (")
        \o Str(n) \o Hangul("gae") \o Ascii(")"))

\* the markers of a domestic address
KoreanMarkers ==
    { Hangul("dae han min guk"), Ascii("korea"), Ascii(" kr"), Ascii("south korea"),
      Hangul("seo 'ul"), Hangul("bu san"), Hangul("gyeong gi"), Hangul("'in cheon") }

\* p.get(field, ''): a place of the provider holds every field, Absent for
\* a key that is not there (user_ratings_total holds p.get(.., 0), and a
\* rating is held as it is printed)
GetOr(v, default) == IF v = Absent THEN default ELSE v
\* x or y
Or(x, y) == IF Truthy(x) THEN x ELSE y

\* the test that drops a place in the loop over the provider's results
IsKoreanAddressExact(p) ==
    LET addr == GetOr(p.formatted_address, <<>>)
    IN  \E kr \in KoreanMarkers : In(kr, addr)
IsKoreanAddress(p) ==
    LET addr == lower(GetOr(p.formatted_address, <<>>))
    IN  \E kr \in KoreanMarkers : In(kr, addr)

GooglePlaceLink(place_id) ==
    [k |-> "url", site |-> "https://www.google.com/maps/place/", place_id |-> place_id]

\* one numbered entry of the result text
PlaceEntry(i, p) ==
    [k |-> "place", i |-> i,
     name |-> GetOr(p.name, Hangul("'i reum") \o Ascii(" ") \o Hangul("'eops 'eum")),
     rating |-> IF Truthy(GetOr(p.rating, None)) THEN p.rating ELSE None,
     reviews |-> IF Truthy(GetOr(p.rating, None)) /\ p.user_ratings_total > 0
                 THEN p.user_ratings_total ELSE 0,
     url |-> GooglePlaceLink(GetOr(p.place_id, None)),
     addr |-> Or(GetOr(p.formatted_address, <<>>), GetOr(p.vicinity, <<>>))]

\* the oracle of one call: the two translations and the provider's reply
NoIntlOracle ==
    [trRegion |-> TranslateError, trKeyword |-> TranslateError, places |-> ReplyRaise]

\* the query sent to the provider
IntlCountry(regions, country_context) ==
    LET given == IF ~country_context.given THEN None ELSE country_context.country
        hits == { i \in DOMAIN regions : Truthy(get_country_for_city(regions[i])) }
    IN  IF Truthy(given) THEN given
        ELSE IF hits # {} THEN get_country_for_city(regions[Min(hits)])
        ELSE None

IntlQuery(keyword, regions, client, country_context, o) ==
    LET country == IntlCountry(regions, country_context)
        region_en == IF regions # <<>>
                     THEN translate_to_english(regions[1], client, o.trRegion)
                     ELSE <<>>
        keyword_en == translate_to_english(keyword, client, o.trKeyword)
    IN  IF Truthy(country) /\ regions # <<>>
        THEN keyword_en \o Ascii(" in ") \o region_en \o Ascii(", ") \o country
        ELSE IF regions # <<>> THEN keyword_en \o Ascii(" in ") \o region_en
        ELSE keyword_en

search_international(keyword, regions, client, country_context, o) ==
    LET country_kr == IF ~country_context.given THEN None ELSE country_context.country_kr
        results == o.places.documents
        NotKorean(p) == ~IsKoreanAddress(p)
        places == SelectSeq(results, NotKorean)
        region_display0 == IF regions # <<>> THEN regions[1] ELSE <<>>
        region_display == IF Truthy(country_kr)
                          THEN country_kr \o Ascii(" ") \o region_display0
                          ELSE region_display0
        shown == Take(places, MaxListed)
    IN  IF o.places.kind = "raise" THEN <<SearchError>>
        \* .lower() of an address that is no str, or > of a review count that is
        \* no number, raises inside the try
        ELSE IF \E j \in DOMAIN results :
                   ~IsStr(GetOr(results[j].formatted_address, <<>>))
             THEN <<SearchError>>
        ELSE IF Len(places) < 1 THEN <<SearchNoResult(keyword)>>
        ELSE <<SearchHeader(region_display, keyword, Len(places))>>
             \o [i \in 1..Len(shown) |-> PlaceEntry(i, shown[i])]

\* what the inputs and the oracle of search_international are drawn from
MaxPlaces == 2

Place(place_id, name, formatted_address, vicinity, rating, user_ratings_total) ==
    [place_id |-> place_id, name |-> name, formatted_address |-> formatted_address,
     vicinity |-> vicinity, rating |-> rating, user_ratings_total |-> user_ratings_total]
PlacePool ==
    { Place(Ascii("p1"), Ascii("Ichiran"), Ascii("Tokyo, Japan"), Absent, Ascii("4.5"), 1234),
      Place(Ascii("p2"), Ascii("Lotte"), Ascii("Seoul, South Korea"), Absent, Ascii("4.0"), 0),
      Place(Ascii("p3"), Absent,
            Hangul("dae han min guk") \o Ascii(" ") \o Hangul("seo 'ul"), Absent, Absent, 0),
      Place(Ascii("p4"), Ascii("Pier"), Ascii("Haeundae KR"), Absent, Absent, 0),
      Place(Ascii("p5"), Ascii("Gate"), Absent, Ascii("Incheon, Korea"), Absent, 7),
      Place(Ascii("p6"), Ascii("Void"), None, Absent, Absent, 0) }
\* a long answer of the provider: places p10, p11, ... abroad
ManyPlaces ==
    [i \in 1..(MaxListed + 1) |->
        Place(Ascii("p") \o Str(9 + i), Ascii("Shop"), Ascii("Osaka, Japan"), Absent, Absent, 0)]
RECURSIVE SeqsUpTo(_, _)
SeqsUpTo(S, n) ==
    IF n = 0 THEN {<<>>}
    ELSE LET R == SeqsUpTo(S, n - 1) IN R \cup { Append(s, x) : s \in R, x \in S }
PlacesReplies ==
    {ReplyRaise} \cup { ReplyHttp(200, ps) : ps \in SeqsUpTo(PlacePool, MaxPlaces) \cup {ManyPlaces} }

IntlKeywords == { Hangul("ra men") }
IntlRegions == { <<>>, <<Hangul("do kyo")>>, <<Hangul("na ka no"), Hangul("do kyo")>> }
\* country_context: None or an empty dict (given is FALSE), or the dict of the
\* two names, None for a name that is not there
NoContext == [given |-> FALSE, country |-> None, country_kr |-> None]
CountryContexts ==
    { NoContext,
      [given |-> TRUE, country |-> Ascii("Japan"), country_kr |-> Hangul("'il bon")],
      [given |-> TRUE, country |-> None, country_kr |-> None] }
IntlPools ==
    [trRegion |-> { TranslateError, TranslateReply(Ascii("Tokyo")) },
     trKeyword |-> { TranslateError, TranslateReply(Ascii("ramen")) },
     places |-> PlacesReplies]
\* the oracles of a call over the pools P
IntlOraclesOver(regions, client, P) ==
    { [trRegion |-> tr, trKeyword |-> tk, places |-> ps] :
        tr \in IF client = None \/ regions = <<>> THEN {TranslateError} ELSE P.trRegion,
        tk \in IF client = None THEN {TranslateError} ELSE P.trKeyword,
        ps \in P.places }
IntlOracles(regions, client) == IntlOraclesOver(regions, client, IntlPools)

NoIntl ==
    [pc |-> "idle", keyword |-> <<>>, regions |-> <<>>, client |-> None,
     country_context |-> NoContext, oracle |-> NoIntlOracle, query |-> <<>>, result |-> <<>>]
IdleIntl == intl = NoIntl

\* one call search_international(keyword, regions, client, country_context)
SearchInternational ==
    /\ intl.pc = "call"
    /\ \E o \in IntlOracles(intl.regions, intl.client) :
          intl' = [intl EXCEPT
                      !.pc = "done",
                      !.oracle = o,
                      !.query = IntlQuery(intl.keyword, intl.regions, intl.client,
                                          intl.country_context, o),
                      !.result = search_international(intl.keyword, intl.regions,
                                                      intl.client, intl.country_context, o)]
    /\ UNCHANGED exceptIntl

(***************************************************************************)
(* Domestic Search Pipeline: expand_regions, search_naver_local,           *)
(* filter_relevant_places_batch, search_domestic                           *)
(***************************************************************************)
\* list(set(expanded)): the tokens, in no order that matters
expand_regions(regions) ==
    UNION { IF regions[i] \in Keys(REGION_EXPAND)
            THEN Range(Lookup(REGION_EXPAND, regions[i]))
            ELSE { regions[i] } : i \in DOMAIN regions }

\* the items of the secondary provider; [] when the request raises or the
\* status is not 200
search_naver_local(keyword, regions, display, reply) ==
    IF reply.kind = "raise" THEN <<>>
    ELSE IF reply.status # 200 THEN <<>>
    ELSE reply.documents

\* the reply of the completion service to the relevance prompt: an error
\* (the call raises or times out, the content is no JSON object, an index is
\* no int), or the set of the indices it lists
FilterError == [ok |-> FALSE, relevant_indices |-> {}]
FilterReply(S) == [ok |-> TRUE, relevant_indices |-> S]

\* a set of ints below 8 is iterated in ascending order
RECURSIVE Ascending(_)
Ascending(S) == IF S = {} THEN <<>> ELSE <<Min(S)>> \o Ascending(S \ {Min(S)})

filter_relevant_places_batch_keep_all(place_names, user_keyword, client, reply) ==
    place_names
filter_relevant_places_batch(place_names, user_keyword, client, reply) ==
    IF place_names = <<>> \/ client = None THEN place_names
    ELSE IF ~reply.ok THEN place_names
    ELSE LET picked == Ascending({ i \in reply.relevant_indices :
                                     1 <= i /\ i <= Len(place_names) })
         IN  [k \in 1..Len(picked) |-> place_names[picked[k]]]

\* str.replace(old, ''): every occurrence of old, left to right
RECURSIVE Remove(_, _)
Remove(s, old) ==
    IF Len(s) < Len(old) THEN s
    ELSE IF SubSeq(s, 1, Len(old)) = old
         THEN Remove(SubSeq(s, Len(old) + 1, Len(s)), old)
         ELSE <<s[1]>> \o Remove(Tail(s), old)

UnivWords == { Hangul("dae"), Hangul("dae hak"), Hangul("dae hak gyo") }
StationWord == Hangul("'yeok")
LandmarkNames ==
    { Hangul("ros de ta 'wo"), Hangul("ko 'ek seu"), Ascii("IFC"),
      Hangul("ta 'im seu kwe 'eo"), Ascii("DDP") }
IsLandmark(region) ==
    \/ \E univ \in UnivWords : In(univ, region)
    \/ In(StationWord, region)
    \/ region \in LandmarkNames
LandmarkKeywords(regions) == SelectSeq(regions, IsLandmark)

\* the documents of the replies to the landmark queries, in order
RECURSIVE DirectResults(_, _)
DirectResults(replies, i) ==
    IF i > Len(replies) THEN <<>>
    ELSE (IF replies[i].kind = "http" /\ replies[i].status = 200
          THEN replies[i].documents ELSE <<>>)
         \o DirectResults(replies, i + 1)

\* an item of the secondary provider, and the item made of a document of the
\* primary one when the secondary provider gave nothing
NaverItem(title, address, roadAddress, telephone) ==
    [title |-> title, address |-> address, roadAddress |-> roadAddress,
     telephone |-> telephone]
ItemOfDocument(p) ==
    NaverItem(p.place_name, GetOr(p.address_name, <<>>),
              GetOr(p.road_address_name, <<>>), Absent)

MaxCandidates == 50
RetryDisplay == 50
FirstDisplay == 30

NaverItems(keyword, regions, retry, o) ==
    LET display == IF retry THEN RetryDisplay ELSE FirstDisplay
        naver_items == search_naver_local(keyword, regions, display, o.naver)
    IN  IF naver_items = <<>> /\ regions # <<>>
        THEN IF o.fallback.kind = "http" /\ o.fallback.status = 200
             THEN [i \in DOMAIN o.fallback.documents |->
                      ItemOfDocument(o.fallback.documents[i])]
             ELSE <<>>
        ELSE naver_items

PlaceName(item) == Remove(Remove(item.title, Ascii("<b>")), Ascii("</b>"))
KeepsName(item) == ~(PlaceName(item) = <<>> \/ Len(PlaceName(item)) < 2)
\* candidate_names, and candidate_items[place_name]: the last item of the name
CandidateItems(naver_items) == SelectSeq(Take(naver_items, MaxCandidates), KeepsName)
CandidateNames(naver_items) ==
    LET items == CandidateItems(naver_items)
    IN  [i \in DOMAIN items |-> PlaceName(items[i])]
CandidateItem(naver_items, place_name) ==
    LET items == CandidateItems(naver_items)
        last == CHOOSE i \in DOMAIN items :
                    /\ PlaceName(items[i]) = place_name
                    /\ \A j \in DOMAIN items : PlaceName(items[j]) = place_name => j <= i
    IN  items[last]

NaverMapLink(place_name) ==
    [k |-> "url", site |-> "https://map.naver.com/p/search/", q |-> quote(place_name)]
FakePlace(n, place_name, item) ==
    [id |-> Ascii("naver_") \o Str(n), place_name |-> place_name,
     place_url |-> NaverMapLink(place_name),
     address_name |-> GetOr(item.address, <<>>),
     road_address_name |-> GetOr(item.roadAddress, <<>>),
     phone |-> GetOr(item.telephone, <<>>)]

\* any(region.lower() in addr for region in expanded_regions), addr being the
\* two addresses joined by a blank, lower-cased
AddressHasRegion(p, expanded_regions) ==
    LET addr == lower(GetOr(p.address_name, <<>>) \o Ascii(" ")
                      \o GetOr(p.road_address_name, <<>>))
    IN  \E region \in expanded_regions : In(lower(region), addr)

\* acc: kakao_candidates and seen_ids
RECURSIVE AddDirect(_, _, _)
AddDirect(kakao_direct_results, i, acc) ==
    IF i > Len(kakao_direct_results) THEN acc
    ELSE LET p == kakao_direct_results[i]
         IN  AddDirect(kakao_direct_results, i + 1,
                 IF p.id \notin acc.seen_ids
                 THEN [kakao_candidates |-> Append(acc.kakao_candidates, p),
                       seen_ids |-> acc.seen_ids \cup {p.id}]
                 ELSE acc)

\* the loop over the documents of one verification reply
RECURSIVE AddVerified(_, _, _, _, _)
AddVerified(places, j, acc, expanded_regions, landmark_keywords) ==
    IF j > Len(places) THEN acc
    ELSE LET p == places[j]
         IN  AddVerified(places, j + 1,
                 IF p.id \in acc.seen_ids THEN acc
                 ELSE IF /\ expanded_regions # {}
                         /\ landmark_keywords = <<>>
                         /\ ~AddressHasRegion(p, expanded_regions)
                      THEN acc
                 ELSE [kakao_candidates |-> Append(acc.kakao_candidates, p),
                       seen_ids |-> acc.seen_ids \cup {p.id}],
                 expanded_regions, landmark_keywords)

\* the loop over relevant_names: replies[i] answers the query for the i-th
RECURSIVE Verify(_, _, _, _, _, _, _)
Verify(relevant_names, i, replies, naver_items, acc, expanded_regions, landmark_keywords) ==
    IF i > Len(relevant_names) THEN acc
    ELSE LET place_name == relevant_names[i]
             resp == replies[i]
             item == CandidateItem(naver_items, place_name)
             fake_place == FakePlace(Len(acc.kakao_candidates), place_name, item)
             next ==
                 IF place_name \notin Range(CandidateNames(naver_items)) THEN acc
                 ELSE IF resp.kind = "raise" THEN acc
                 ELSE IF resp.status # 200 THEN acc
                 ELSE IF resp.documents = <<>>
                      THEN IF expanded_regions # {}
                              => AddressHasRegion(fake_place, expanded_regions)
                           THEN [acc EXCEPT !.kakao_candidates = Append(@, fake_place)]
                           ELSE acc
                 ELSE AddVerified(resp.documents, 1, acc, expanded_regions,
                                  landmark_keywords)
         IN  Verify(relevant_names, i + 1, replies, naver_items, next,
                    expanded_regions, landmark_keywords)

\* the oracle of one call of search_domestic: the replies to the calls it makes
NoDomesticOracle ==
    [landmark |-> <<>>, naver |-> ReplyRaise, fallback |-> ReplyRaise,
     filter1 |-> FilterError, verify |-> <<>>, filter2 |-> FilterError]

RelevantNames(keyword, regions, client, retry, o) ==
    filter_relevant_places_batch(CandidateNames(NaverItems(keyword, regions, retry, o)),
                                 keyword, client, o.filter1)

KakaoCandidates(keyword, regions, client, retry, o) ==
    LET expanded_regions == IF regions # <<>> THEN expand_regions(regions) ELSE {}
        landmark_keywords == LandmarkKeywords(regions)
        kakao_direct_results == DirectResults(o.landmark, 1)
        naver_items == NaverItems(keyword, regions, retry, o)
        relevant_names == RelevantNames(keyword, regions, client, retry, o)
        direct == AddDirect(kakao_direct_results, 1,
                            [kakao_candidates |-> <<>>, seen_ids |-> {}])
    IN  Verify(relevant_names, 1, o.verify, naver_items, direct, expanded_regions,
               landmark_keywords).kakao_candidates

search_domestic(keyword, regions, client, retry, o) ==
    LET kakao_candidates == KakaoCandidates(keyword, regions, client, retry, o)
        kakao_names == [i \in DOMAIN kakao_candidates |-> kakao_candidates[i].place_name]
        final_names == filter_relevant_places_batch(kakao_names, keyword, client, o.filter2)
        Final(p) == p.place_name \in Range(final_names)
    IN  IF kakao_candidates # <<>> THEN SelectSeq(kakao_candidates, Final) ELSE <<>>

\* what the inputs and the oracle of search_domestic are drawn from
KakaoPlace(id, place_name, address_name, road_address_name) ==
    [id |-> id, place_name |-> place_name,
     place_url |-> [k |-> "url", site |-> "http://place.map.kakao.com/", q |-> id],
     address_name |-> address_name, road_address_name |-> road_address_name,
     phone |-> <<>>]
K1 == KakaoPlace(Ascii("1"), Hangul("sik dang"), Hangul("gang nam gu"), Absent)
K2 == KakaoPlace(Ascii("2"), Hangul("hoes jip"), Hangul("bu san"), <<>>)
K3 == KakaoPlace(Ascii("3"), Hangul("guk bap"), Hangul("seo 'ul"), Hangul("gang nam"))
I1 == NaverItem(Ascii("<b>") \o Hangul("sik dang") \o Ascii("</b>"), Hangul("gang nam gu"),
                <<>>, Ascii("02"))
I2 == NaverItem(Hangul("hoes jip"), Hangul("bu san"), Absent, Absent)
I3 == NaverItem(Hangul("guk bap"), Hangul("seo 'ul"), Hangul("gang nam"), Absent)
I4 == NaverItem(Ascii("<b>A</b>"), Hangul("gang nam gu"), <<>>, Absent)

DomesticKeywords == { Hangul("mas jip") }
DomesticRegions ==
    { <<>>, <<Hangul("gang nam")>>, <<Hangul("hae 'un dae")>>,
      <<Hangul("seo 'ul") \o Ascii(" ") \o Hangul("gang nam")>> }
LandmarkReplies == { ReplyRaise, ReplyHttp(200, <<K2>>), ReplyHttp(200, <<K1, K2>>) }
NaverReplies ==
    { ReplyRaise, ReplyHttp(500, <<I1>>), ReplyHttp(200, <<>>), ReplyHttp(200, <<I1>>),
      ReplyHttp(200, <<I1, I2>>), ReplyHttp(200, <<I3, I4>>), ReplyHttp(200, <<I2, I3>>) }
FallbackReplies == { ReplyRaise, ReplyHttp(200, <<>>), ReplyHttp(200, <<K1>>) }
VerifyReplies ==
    { ReplyRaise, ReplyHttp(500, <<>>), ReplyHttp(200, <<>>), ReplyHttp(200, <<K1>>),
      ReplyHttp(200, <<K3>>), ReplyHttp(200, <<K2, K3>>) }
\* the replies to the relevance prompt over n names: an error, no index, the
\* first, all of them, or the last and one beyond it
FilterAnswers == { "error", "none", "first", "all", "last" }
FilterReplyOf(answer, n) ==
    IF answer = "error" THEN FilterError
    ELSE IF answer = "none" THEN FilterReply({})
    ELSE IF answer = "first" THEN FilterReply({1})
    ELSE IF answer = "all" THEN FilterReply(1..n)
    ELSE FilterReply({n, n + 1})
FilterReplies(answers, n) == { FilterReplyOf(a, n) : a \in answers }
DomesticPools ==
    [landmark |-> LandmarkReplies, naver |-> NaverReplies, fallback |-> FallbackReplies,
     verify |-> VerifyReplies, filter |-> FilterAnswers]

\* the oracles of a call over the pools P: a reply for each call that is made,
\* and none for the calls that are not
DomesticOraclesOver(keyword, regions, client, retry, P) ==
    LET first ==
            { [NoDomesticOracle EXCEPT !.landmark = l, !.naver = n, !.fallback = f] :
                l \in [1..Len(LandmarkKeywords(regions)) -> P.landmark],
                n \in P.naver,
                f \in P.fallback }
        called(o) ==
            \/ search_naver_local(keyword, regions, FirstDisplay, o.naver) = <<>>
               /\ regions # <<>>
            \/ o.fallback = ReplyRaise
        filtered(o) ==
            LET names == CandidateNames(NaverItems(keyword, regions, retry, o))
            IN  IF names = <<>> \/ client = None THEN { o }
                ELSE { [o EXCEPT !.filter1 = r] : r \in FilterReplies(P.filter, Len(names)) }
        verified(o) ==
            LET names == RelevantNames(keyword, regions, client, retry, o)
            IN  { [o EXCEPT !.verify = v] : v \in [1..Len(names) -> P.verify] }
        refiltered(o) ==
            LET cands == KakaoCandidates(keyword, regions, client, retry, o)
            IN  IF cands = <<>> \/ client = None THEN { o }
                ELSE { [o EXCEPT !.filter2 = r] : r \in FilterReplies(P.filter, Len(cands)) }
    IN  UNION { UNION { UNION { refiltered(v) : v \in verified(f) } : f \in filtered(o) } :
                o \in { x \in first : called(x) } }
DomesticOracles(keyword, regions, client, retry) ==
    DomesticOraclesOver(keyword, regions, client, retry, DomesticPools)

NoDomestic ==
    [pc |-> "idle", keyword |-> <<>>, regions |-> <<>>, client |-> None,
     retry |-> FALSE, oracle |-> NoDomesticOracle, result |-> <<>>]
IdleDomestic == domestic = NoDomestic

\* one call search_domestic(keyword, regions, client, retry)
SearchDomestic ==
    /\ domestic.pc = "call"
    /\ \E o \in DomesticOracles(domestic.keyword, domestic.regions, domestic.client,
                                domestic.retry) :
          domestic' = [domestic EXCEPT
                          !.pc = "done",
                          !.oracle = o,
                          !.result = search_domestic(domestic.keyword, domestic.regions,
                                                     domestic.client, domestic.retry, o)]
    /\ UNCHANGED exceptDomestic

(***************************************************************************)
(* extract_regions_with_context, format_places_result                      *)
(***************************************************************************)
\* the reply of the completion service to the region-and-country prompt: an
\* error, or a JSON object (Absent for a name that is not there; regions holds
\* data.get('regions', []), the empty list when the key is not there)
ContextError == [ok |-> FALSE, regions |-> <<>>, country |-> Absent, country_kr |-> Absent]
ContextReply(regions, country, country_kr) ==
    [ok |-> TRUE, regions |-> regions, country |-> country, country_kr |-> country_kr]

\* (regions, country_context)
extract_regions_with_context(text, client, reply) ==
    IF client = None THEN <<<<>>, NoContext>>
    ELSE IF ~reply.ok THEN <<<<>>, NoContext>>
    ELSE << reply.regions,
            [given |-> TRUE, country |-> GetOr(reply.country, None),
             country_kr |-> GetOr(reply.country_kr, None)] >>

\* "naver.com" in place_url
IsNaverUrl(place_url) == place_url.site = "https://map.naver.com/p/search/"

\* one numbered entry of format_places_result (the documents of the provider
\* and the placeholder candidates all carry place_url)
PlaceLine(i, p) ==
    [k |-> "entry", i |-> i, place_name |-> p.place_name,
     link_type |-> IF IsNaverUrl(p.place_url) THEN Hangul("ne 'i beo maep")
                   ELSE Hangul("ka ka 'o maep"),
     place_url |-> p.place_url,
     address |-> Or(GetOr(p.road_address_name, None), GetOr(p.address_name, <<>>)),
     phone |-> GetOr(p.phone, <<>>)]

format_places_result(keyword, places) ==
    IF places = <<>> THEN <<SearchNoResult(keyword)>>
    ELSE <<Lit(Ascii("# ") \o keyword \o Ascii(" ") \o Hangul("geom saek") \o Ascii(" ")
               \o Hangul("gyeol gwa") \o Ascii(" (") \o Str(Len(places)) \o Hangul("gae")
               \o Ascii(")"))>>
         \o [i \in 1..Len(places) |-> PlaceLine(i, places[i])]

(***************************************************************************)
(* MCP dispatcher: handle_mcp                                              *)
(***************************************************************************)
analyze_chat_history == Ascii("analyze_chat_history")
ask_travel_advisor == Ascii("ask_travel_advisor")
check_travel_route == Ascii("check_travel_route")
calculate_budget == Ascii("calculate_budget")

TOOLS_LIST ==
    << [name |-> analyze_chat_history, required |-> {"chat_log"}],
       [name |-> ask_travel_advisor, required |-> {"question"}],
       [name |-> check_travel_route, required |-> {"start", "goal"}],
       [name |-> calculate_budget,
        required |-> {"locations", "people_count", "duration", "plan_details"}] >>

\* ---- requests ----
\* arguments: absent, a JSON value that is no object, or an object (Absent for
\* a key that is not there)
NoArguments ==
    [kind |-> "absent", chat_log |-> Absent, question |-> Absent, start |-> Absent,
     goal |-> Absent, locations |-> Absent, people_count |-> Absent, duration |-> Absent,
     plan_details |-> Absent]
OtherArguments == [NoArguments EXCEPT !.kind = "other"]
EmptyArguments == [NoArguments EXCEPT !.kind = "object"]

\* params: absent, a JSON value that is no object, or an object
NoParams == [kind |-> "absent", name |-> Absent, arguments |-> NoArguments]
OtherParams == [NoParams EXCEPT !.kind = "other"]
Params(name, arguments) == [kind |-> "object", name |-> name, arguments |-> arguments]

\* the body: bytes that are no JSON, a JSON value that is no object, or an
\* object
InvalidBody == [json |-> "invalid", method |-> Absent, id |-> Absent, params |-> NoParams]
ArrayBody == [InvalidBody EXCEPT !.json = "array"]
Body(method, id, params) == [json |-> "object", method |-> method, id |-> id, params |-> params]

HttpRequest(method, accept, body) == [method |-> method, accept |-> accept, body |-> body]

\* ---- responses ----
NoJson == [jsonrpc |-> "2.0", id |-> None, result |-> [kind |-> "none"]]
Response(content, status_code) ==
    [kind |-> "response", status_code |-> status_code, content |-> content, json |-> NoJson]
JSONResponse(json) ==
    [kind |-> "json", status_code |-> 200, content |-> <<>>, json |-> json]
\* an exception that leaves handle_mcp: the server's error response
Unhandled ==
    [kind |-> "unhandled", status_code |-> 500, content |-> <<>>, json |-> NoJson]

JsonRpc(msg_id, result) == [jsonrpc |-> "2.0", id |-> msg_id, result |-> result]
InitializeResult ==
    [kind |-> "initialize", protocolVersion |-> "2025-03-26",
     serverInfo |-> [name |-> "TravelMate", version |-> "15.0"]]
ToolsResult == [kind |-> "tools", tools |-> TOOLS_LIST]
\* a variant that raises the flag on an error text
CallResultFlagged(result_text) ==
    [kind |-> "call", content |-> <<[type |-> "text", text |-> result_text]>>,
     isError |-> (result_text # <<>> /\ result_text[1].k = "error")]
CallResult(result_text) ==
    [kind |-> "call", content |-> <<[type |-> "text", text |-> result_text]>>,
     isError |-> FALSE]
EmptyResult == [kind |-> "empty"]

\* a variant that answers 200 to a body that is no JSON
InvalidJsonAccepted == Response(Ascii("Invalid JSON"), 200)
InvalidJson == Response(Ascii("Invalid JSON"), 400)

\* ---- texts ----
Unavailable == <<Lit(Ascii("OpenAI ") \o Hangul("mi cho gi hwa"))>>
\* a prefix followed by the text of the exception
ErrorText(prefix) == <<[k |-> "error", s |-> prefix]>>
AnalyzeError == ErrorText(Hangul("bun seok") \o Ascii(" ") \o Hangul("'o ryu"))
AdvisorError == <<SearchError>>
RouteError == ErrorText(Hangul("gyeong ro") \o Ascii(" ") \o Hangul("'o ryu"))
BudgetError ==
    ErrorText(Hangul("'ye san") \o Ascii(" ") \o Hangul("gye san") \o Ascii(" ")
              \o Hangul("'o ryu"))
GuideFailed ==
    <<Lit(Hangul("geom saek") \o Ascii(" ") \o Hangul("jung") \o Ascii(" ")
          \o Hangul("'o ryu ga") \o Ascii(" ") \o Hangul("bal saeng haess seup ni da")
          \o Ascii(". ") \o Hangul("jam si") \o Ascii(" ") \o Hangul("hu") \o Ascii(" ")
          \o Hangul("da si") \o Ascii(" ") \o Hangul("si do hae ju se 'yo") \o Ascii("."))>>
Clarify ==
    <<Lit(Hangul("chul bal ji 'wa") \o Ascii(" ") \o Hangul("do chak ji reul") \o Ascii(" ")
          \o Hangul("myeong hwak hi") \o Ascii(" ") \o Hangul("mal sseum hae ju se 'yo")
          \o Ascii(".")),
      Lit(Hangul("'ye") \o Ascii(": '") \o Hangul("'o sa ka 'e seo") \o Ascii(" ")
          \o Hangul("gyo to") \o Ascii(" ") \o Hangul("ga neun") \o Ascii(" ")
          \o Hangul("bang beop") \o Ascii("'"))>>
NothingFound ==
    <<Lit(Hangul("geom saek") \o Ascii(" ") \o Hangul("gyeol gwa reul") \o Ascii(" ")
          \o Hangul("chaj 'eul") \o Ascii(" ") \o Hangul("su") \o Ascii(" ")
          \o Hangul("'eops seup ni da") \o Ascii("."))>>
\* message.content of a completion: a str, or None
ContentText(content) ==
    IF content = None THEN <<[k |-> "null", s |-> <<>>]>>
    ELSE <<[k |-> "completion", s |-> content]>>

\* ---- replies of the completion service and of the web search ----
ChatError == [ok |-> FALSE, content |-> None]
ChatReply(content) == [ok |-> TRUE, content |-> content]

TypeError == [ok |-> FALSE, type |-> Absent]
TypeReply(type) == [ok |-> TRUE, type |-> type]

\* keywords holds keyword_data.get('keywords', []), the empty list when the
\* key is not there
KeywordsError == [ok |-> FALSE, keywords |-> <<>>]
KeywordsReply(keywords) == [ok |-> TRUE, keywords |-> keywords]

\* ---- the outcome of a tool: result_text, the pipelines and services it
\* invoked in order, whether its except clause ran; or an exception that the
\* tool does not catch ----
Outcome(text, calls, failed) ==
    [raised |-> FALSE, text |-> text, calls |-> calls, failed |-> failed]
Escaped(calls) == [raised |-> TRUE, text |-> <<>>, calls |-> calls, failed |-> FALSE]

\* the oracle of one keyword of the place search: the replies to the calls of
\* the two domestic passes or of the international search, and whether the
\* message of an exception is longer than the text limit allows
NoSearchOracle ==
    [dom1 |-> NoDomesticOracle, dom2 |-> NoDomesticOracle, intl |-> NoIntlOracle,
     long |-> FALSE]

\* the oracle of one request: the replies to the calls it makes, and the order
\* in which the region extractor lists regions of equal length
NoMcpOracle ==
    [chat |-> ChatError, type |-> TypeError, ddg |-> ReplyRaise,
     extractStart |-> ReplyError, start_regions |-> <<>>,
     extractGoal |-> ReplyError, goal_regions |-> <<>>,
     route |-> NoRouteOracle, context |-> ContextError, keywords |-> KeywordsError,
     search |-> <<>>]

\* tool 1 and tool 4: one completion
AnalyzeChatHistory(args, client, o) ==
    IF client = None THEN Outcome(Unavailable, <<>>, FALSE)
    ELSE IF args.kind # "object" THEN Outcome(AnalyzeError, <<>>, TRUE)
    ELSE IF ~o.chat.ok THEN Outcome(AnalyzeError, <<"chat.completions.create">>, TRUE)
    ELSE Outcome(ContentText(o.chat.content), <<"chat.completions.create">>, FALSE)

CalculateBudget(args, client, o) ==
    IF client = None THEN Outcome(Unavailable, <<>>, FALSE)
    ELSE IF args.kind # "object" THEN Outcome(BudgetError, <<>>, TRUE)
    ELSE IF ~o.chat.ok
         THEN Outcome(BudgetError, <<"web_search_for_budget", "chat.completions.create">>, TRUE)
    ELSE Outcome(ContentText(o.chat.content),
                 <<"web_search_for_budget", "chat.completions.create">>, FALSE)

\* result_text = await get_route_info(...) inside a try: r is what the call
\* gave, error the text of the except clause
RouteOutcome(r, calls, error) ==
    IF r.raised THEN Outcome(error, calls, TRUE) ELSE Outcome(r.text, calls, FALSE)

\* tool 3: args.get is outside the try
CheckTravelRoute(args, client, KAKAO_API_KEY, o) ==
    IF args.kind # "object" THEN Escaped(<<>>)
    ELSE LET start == GetOr(args.start, <<>>)
             goal == GetOr(args.goal, <<>>)
             start_clean == IF o.start_regions # <<>> THEN o.start_regions[1] ELSE start
             goal_clean == IF o.goal_regions # <<>> THEN o.goal_regions[1] ELSE goal
         IN  IF client = None THEN Outcome(Unavailable, <<>>, FALSE)
             ELSE IF ~IsStr(start)
                  THEN Outcome(RouteError, <<"extract_regions_hybrid">>, TRUE)
             ELSE IF ~IsStr(goal)
                  THEN Outcome(RouteError,
                               <<"extract_regions_hybrid", "extract_regions_hybrid">>, TRUE)
             ELSE RouteOutcome(get_route_info(start_clean, goal_clean, start, goal, client,
                                              KAKAO_API_KEY, o.route),
                               <<"extract_regions_hybrid", "extract_regions_hybrid",
                                 "get_route_info">>,
                               RouteError)

\* str.strip()
RECURSIVE strip(_)
strip(s) ==
    IF s = <<>> THEN s
    ELSE IF s[1] = " " THEN strip(Tail(s))
    ELSE IF s[Len(s)] = " " THEN strip(SubSeq(s, 1, Len(s) - 1))
    ELSE s

ThinResults == 5
MaxMerged == 10
MaxKeywords == 5

\* the loop that appends the places of the retry pass
RECURSIVE MergeMore(_, _, _, _)
MergeMore(places, more_places, j, existing_ids) ==
    IF j > Len(more_places) THEN places
    ELSE IF more_places[j].id \notin existing_ids
         THEN LET added == Append(places, more_places[j])
              IN  IF Len(added) >= MaxMerged THEN added
                  ELSE MergeMore(added, more_places, j + 1, existing_ids)
    ELSE MergeMore(places, more_places, j + 1, existing_ids)

\* the places of the first pass, with those of the retry pass appended when
\* the first pass is thin; and the searches made
Merged(places, more_places) ==
    IF Len(places) < ThinResults
    THEN [places |-> MergeMore(places, more_places, 1, { places[i].id : i \in DOMAIN places }),
          calls |-> <<"search_domestic", "search_domestic">>]
    ELSE [places |-> places, calls |-> <<"search_domestic">>]
DomesticPlaces(kw, regions, client, so) ==
    Merged(search_domestic(kw, regions, client, FALSE, so.dom1),
           search_domestic(kw, regions, client, TRUE, so.dom2))

\* res and len(res) > 50 and the 'no results' phrase not in res: a listing is
\* longer than 50 characters, an error text is when the exception's message
\* is long, and the 'no results' text holds the phrase
NoResultPhrase ==
    Hangul("geom saek") \o Ascii(" ") \o Hangul("gyeol gwa") \o Ascii(" ") \o Hangul("'eops 'eum")
KeepsResult(res, long) ==
    /\ res # <<>>
    /\ IF res[1].k = "error" THEN long
       ELSE \E i \in DOMAIN res : res[i].k \in {"entry", "place"}
    /\ ~\E i \in DOMAIN res : res[i].k = "lit" /\ In(NoResultPhrase, res[i].s)

\* res of one keyword, and the searches made for it
Formatted(kw, found) == [res |-> format_places_result(kw, found.places), calls |-> found.calls]
\* a variant that searches at home whatever the country
KeywordResultDomestic(kw, regions, client, country_context, is_korea, so) ==
    Formatted(kw, DomesticPlaces(kw, regions, client, so))
KeywordResult(kw, regions, client, country_context, is_korea, so) ==
    IF is_korea THEN Formatted(kw, DomesticPlaces(kw, regions, client, so))
    ELSE [res |-> search_international(kw, regions, client, country_context, so.intl),
          calls |-> <<"search_international">>]
Gathered(acc, found, long) ==
    [acc EXCEPT !.calls = @ \o found.calls,
                !.results = IF KeepsResult(found.res, long) THEN @ \o found.res ELSE @]

\* the loop over keywords[:5]: what it has gathered, and what it has invoked
RECURSIVE SearchKeywords(_, _, _, _, _, _, _, _)
SearchKeywords(keywords, i, regions, client, country_context, is_korea, search, acc) ==
    IF i > Len(keywords) \/ acc.raised THEN acc
    ELSE SearchKeywords(
             keywords, i + 1, regions, client, country_context, is_korea, search,
             IF ~IsStr(keywords[i]) THEN [acc EXCEPT !.raised = TRUE]
             ELSE IF strip(keywords[i]) = <<>> THEN acc
             ELSE Gathered(acc,
                           KeywordResult(keywords[i], regions, client, country_context,
                                         is_korea, search[i]),
                           search[i].long))

\* result_text of the place branch
PlaceOutcome(found) ==
    IF found.raised THEN Outcome(AdvisorError, found.calls, TRUE)
    ELSE Outcome(IF found.results # <<>> THEN found.results ELSE NothingFound,
                 found.calls, FALSE)

KoreaNames == { Ascii("korea"), Ascii("south korea"), Hangul("han guk") }

\* tool 2
AskTravelAdvisor(args, client, KAKAO_API_KEY, o) ==
    IF client = None THEN Outcome(Unavailable, <<>>, FALSE)
    ELSE IF args.kind # "object" THEN Outcome(AdvisorError, <<>>, TRUE)
    ELSE IF ~o.type.ok THEN Outcome(AdvisorError, <<"chat.completions.create">>, TRUE)
    ELSE LET question == GetOr(args.question, <<>>)
             question_type == GetOr(o.type.type, Ascii("place"))
         IN  IF question_type = Ascii("guide")
             THEN IF o.ddg.kind = "raise"
                  THEN Outcome(GuideFailed, <<"chat.completions.create", "DDGS.text">>, FALSE)
                  ELSE IF ~o.chat.ok
                  THEN Outcome(GuideFailed,
                               <<"chat.completions.create", "DDGS.text",
                                 "chat.completions.create">>, FALSE)
                  ELSE Outcome(ContentText(o.chat.content),
                               <<"chat.completions.create", "DDGS.text",
                                 "chat.completions.create">>, FALSE)
             ELSE IF question_type = Ascii("route")
             THEN LET regions == o.start_regions
                  IN  IF ~IsStr(question)
                      THEN Outcome(AdvisorError,
                                   <<"chat.completions.create", "extract_regions_hybrid">>, TRUE)
                      ELSE IF Len(regions) < 2
                      THEN Outcome(Clarify,
                                   <<"chat.completions.create", "extract_regions_hybrid">>, FALSE)
                      ELSE RouteOutcome(get_route_info(regions[1], regions[2], question,
                                                       question, client, KAKAO_API_KEY,
                                                       o.route),
                                        <<"chat.completions.create", "extract_regions_hybrid",
                                          "get_route_info">>,
                                        AdvisorError)
             ELSE LET rc == extract_regions_with_context(question, client, o.context)
                      regions == rc[1]
                      country_context == rc[2]
                      is_korea == country_context.given
                                  /\ lower(country_context.country) \in KoreaNames
                      keywords == o.keywords.keywords
                  IN  \* country.lower() of a country that is None
                      IF country_context.given /\ ~IsStr(country_context.country)
                      THEN Outcome(AdvisorError,
                                   <<"chat.completions.create",
                                     "extract_regions_with_context">>, TRUE)
                      ELSE IF ~o.keywords.ok
                      THEN Outcome(AdvisorError,
                                   <<"chat.completions.create", "extract_regions_with_context",
                                     "chat.completions.create">>, TRUE)
                      ELSE PlaceOutcome(
                               SearchKeywords(Take(keywords, MaxKeywords), 1, regions, client,
                                              country_context, is_korea, o.search,
                                              [raised |-> FALSE, results |-> <<>>,
                                               calls |-> <<"chat.completions.create",
                                                           "extract_regions_with_context",
                                                           "chat.completions.create">>]))

\* a variant that takes every Accept header
AcceptOkAny(accept_header) == TRUE
\* the Accept check
AcceptOk(accept_header) ==
    ~( /\ accept_header # <<>>
       /\ ~In(Ascii("application/json"), accept_header)
       /\ ~In(Ascii("text/event-stream"), accept_header)
       /\ ~In(Ascii("*/*"), accept_header) )

ToolNames == { TOOLS_LIST[i].name : i \in DOMAIN TOOLS_LIST }

\* the tool whose branch a request enters, None when it enters none
ToolOf(request) ==
    IF /\ request.method = "POST"
       /\ AcceptOk(request.accept)
       /\ request.body.json = "object"
       /\ request.body.method = Ascii("tools/call")
       /\ request.body.params.kind = "object"
       /\ request.body.params.name # Absent
       /\ request.body.params.arguments.kind # "absent"
       /\ request.body.params.name \in ToolNames
    THEN request.body.params.name
    ELSE None

NoOutcome == Outcome(<<>>, <<>>, FALSE)

RunTool(tool_name, args, client, KAKAO_API_KEY, o) ==
    IF tool_name = analyze_chat_history THEN AnalyzeChatHistory(args, client, o)
    ELSE IF tool_name = ask_travel_advisor
         THEN AskTravelAdvisor(args, client, KAKAO_API_KEY, o)
    ELSE IF tool_name = check_travel_route
         THEN CheckTravelRoute(args, client, KAKAO_API_KEY, o)
    ELSE IF tool_name = calculate_budget THEN CalculateBudget(args, client, o)
    ELSE NoOutcome

\* what handle_mcp answers, the tool whose branch it entered and what the
\* tool did
Handled(response, tool, outcome) == [response |-> response, tool |-> tool, outcome |-> outcome]

\* the answer to a tools/call whose tool gave outcome
CallAnswer(request, msg_id, outcome) ==
    IF outcome.raised THEN Handled(Unhandled, ToolOf(request), outcome)
    ELSE Handled(JSONResponse(JsonRpc(msg_id, CallResult(outcome.text))),
                 ToolOf(request), outcome)

handle_mcp(request, client, KAKAO_API_KEY, o) ==
    LET body == request.body
        method == body.method
        msg_id == GetOr(body.id, None)
        params == body.params
        tool_name == params.name
        args == params.arguments
    IN  IF request.method = "OPTIONS" THEN Handled(Response(<<>>, 200), None, NoOutcome)
        ELSE IF request.method = "GET"
             THEN Handled(Response(Ascii("SSE stream not supported"), 405), None, NoOutcome)
        ELSE IF request.method # "POST"
             THEN Handled(Response(Ascii("Method not allowed"), 405), None, NoOutcome)
        ELSE IF ~AcceptOk(request.accept)
             THEN Handled(Response(Ascii("Accept header must include application/json or text/event-stream"),
                                   400), None, NoOutcome)
        ELSE IF body.json = "invalid" THEN Handled(InvalidJson, None, NoOutcome)
        \* .get of a JSON value that is no object
        ELSE IF body.json # "object" THEN Handled(Unhandled, None, NoOutcome)
        ELSE IF method = Ascii("initialize")
             THEN Handled(JSONResponse(JsonRpc(msg_id, InitializeResult)), None, NoOutcome)
        ELSE IF method = Ascii("notifications/initialized")
             THEN Handled(Response(<<>>, 202), None, NoOutcome)
        ELSE IF method = Ascii("tools/list")
             THEN Handled(JSONResponse(JsonRpc(msg_id, ToolsResult)), None, NoOutcome)
        ELSE IF method = Ascii("tools/call")
             THEN \* body["params"]["name"] and body["params"]["arguments"]
                  IF params.kind # "object" THEN Handled(Unhandled, None, NoOutcome)
                  ELSE IF tool_name = Absent \/ args.kind = "absent"
                       THEN Handled(Unhandled, None, NoOutcome)
                  ELSE CallAnswer(request, msg_id,
                                  RunTool(tool_name, args, client, KAKAO_API_KEY, o))
        ELSE Handled(JSONResponse(JsonRpc(msg_id, EmptyResult)), None, NoOutcome)

\* ---- what the requests and the oracle of a request are drawn from ----
FullArguments(question, start, goal) ==
    [kind |-> "object", chat_log |-> Ascii("hi"), question |-> question, start |-> start,
     goal |-> goal, locations |-> Hangul("bu san"), people_count |-> JsonNumber,
     duration |-> Ascii("3d"), plan_details |-> Ascii("plan")]
ArgumentsPool ==
    { NoArguments, OtherArguments, EmptyArguments,
      FullArguments(Hangul("seo 'ul") \o Ascii(" ") \o Hangul("bu san"),
                    Hangul("gang nam"), Hangul("do kyo")),
      FullArguments(Hangul("gang nam") \o Ascii(" ") \o Hangul("mas jip"),
                    Ascii("LA"), Ascii("LA")),
      FullArguments(JsonNumber, JsonNumber, Hangul("gang nam")),
      FullArguments(Hangul("seo 'ul") \o Ascii(" ") \o Hangul("hae 'un dae"),
                    JsonNumber, JsonNumber) }
ParamsPool ==
    { NoParams, OtherParams }
    \cup { Params(name, arguments) :
             name \in ToolNames \cup { Ascii("unknown_tool"), Absent },
             arguments \in ArgumentsPool }
BodyPool ==
    { InvalidBody, ArrayBody }
    \cup { Body(method, id, NoParams) :
             method \in { Ascii("initialize"), Ascii("notifications/initialized"),
                          Ascii("tools/list"), Ascii("ping"), Absent },
             id \in { Absent, Ascii("1") } }
    \cup { Body(Ascii("tools/call"), Ascii("1"), params) : params \in ParamsPool }
Accepts ==
    { <<>>, Ascii("application/json, text/event-stream"), Ascii("*/*"), Ascii("text/html") }
RequestPool ==
    { HttpRequest("POST", accept, body) : accept \in Accepts, body \in BodyPool }
    \cup { HttpRequest(method, <<>>, body) :
             method \in { "OPTIONS", "GET", "PUT" },
             body \in { InvalidBody,
                        Body(Ascii("tools/call"), Ascii("1"),
                             Params(analyze_chat_history, EmptyArguments)) } }

ChatReplies == { ChatError, ChatReply(None), ChatReply(Ascii("plan")) }
TypeReplies ==
    { TypeError, TypeReply(Absent), TypeReply(Ascii("guide")), TypeReply(Ascii("route")),
      TypeReply(Ascii("place")) }
KeywordsReplies ==
    { KeywordsError, KeywordsReply(<<>>), KeywordsReply(<<Hangul("mas jip")>>),
      KeywordsReply(<<Ascii(" "), Hangul("mas jip")>>), KeywordsReply(<<JsonNumber>>) }
DdgReplies == { ReplyRaise, ReplyHttp(200, <<>>) }
ContextReplies ==
    { ContextError,
      ContextReply(<<Hangul("gang nam")>>, Ascii("Korea"), Hangul("han guk")),
      ContextReply(<<Hangul("do kyo")>>, Ascii("Japan"), Hangul("'il bon")),
      ContextReply(<<Hangul("na go 'ya")>>, Absent, Absent) }
RequestExtractReplies == { ReplyError, ReplyRegions({Hangul("do kyo")}) }
RequestRoutePools ==
    [classify |-> ClassifyReplies,
     translate |-> { TranslateError, TranslateReply(Ascii("Tokyo")) },
     geo |-> { <<ReplyRaise, ReplyRaise, ReplyRaise>>,
               <<ReplyHttp(200, <<PlainDoc>>), ReplyRaise, ReplyRaise>> },
     navi |-> { ReplyRaise, ReplyHttp(200, <<NaviRoute(3661, 12345)>>) },
     conv |-> { ReplyHttp(200, <<[x |-> Ascii("507000"), y |-> Ascii("1110000")]>>) }]
RequestDomesticPools ==
    [landmark |-> { ReplyRaise },
     naver |-> { ReplyRaise, ReplyHttp(200, <<I2, I1>>) },
     fallback |-> { ReplyRaise },
     verify |-> { ReplyHttp(200, <<>>), ReplyHttp(200, <<K1>>) },
     filter |-> { "error", "all" }]
RequestIntlPools ==
    [trRegion |-> { TranslateError }, trKeyword |-> { TranslateError },
     places |-> { ReplyRaise, ReplyHttp(200, <<>>),
                  ReplyHttp(200, << Place(Ascii("p1"), Ascii("Ichiran"), Ascii("Tokyo, Japan"),
                                          Absent, Ascii("4.5"), 1234) >>) }]

\* the oracles of the searches of one keyword; passes[retry] holds the oracles
\* of a pass of search_domestic
DomesticPassOracles(kw, regions, client, passes) ==
    UNION { { [NoSearchOracle EXCEPT !.dom1 = d1, !.dom2 = d2] :
                d2 \in IF Len(search_domestic(kw, regions, client, FALSE, d1)) < ThinResults
                       THEN passes[TRUE] ELSE { NoDomesticOracle } } :
            d1 \in passes[FALSE] }
IntlSearchOracles(kw, regions, client, country_context) ==
    UNION { { [NoSearchOracle EXCEPT !.intl = io, !.long = long] :
                long \in IF search_international(kw, regions, client, country_context, io)
                            = <<SearchError>>
                         THEN BOOLEAN ELSE { FALSE } } :
            io \in IntlOraclesOver(regions, client, RequestIntlPools) }
KeywordOracles(kw, regions, client, country_context, is_korea) ==
    IF ~IsStr(kw) THEN { NoSearchOracle }
    ELSE IF strip(kw) = <<>> THEN { NoSearchOracle }
    ELSE IF is_korea
    THEN DomesticPassOracles(
             kw, regions, client,
             [retry \in BOOLEAN |->
                DomesticOraclesOver(kw, regions, client, retry, RequestDomesticPools)])
    ELSE IntlSearchOracles(kw, regions, client, country_context)

RECURSIVE SearchOracles(_, _, _, _, _, _)
SearchOracles(keywords, i, regions, client, country_context, is_korea) ==
    IF i > Len(keywords) THEN { <<>> }
    ELSE { <<so>> \o rest :
             so \in KeywordOracles(keywords[i], regions, client, country_context, is_korea),
             rest \in SearchOracles(keywords, i + 1, regions, client, country_context,
                                    is_korea) }

\* the oracles of a request: a reply for each call that the request makes, and
\* none for the calls that it does not make
RoutedOracles(base, s, g, client, KAKAO_API_KEY) ==
    { [base EXCEPT !.route = r] :
        r \in RouteOraclesOver(s, g, client, KAKAO_API_KEY, RequestRoutePools) }
StartExtracted(base, text, client) ==
    UNION { { [base EXCEPT !.extractStart = e, !.start_regions = regions] :
                regions \in extract_regions_hybrid(text, client, e) } :
            e \in RequestExtractReplies }
GoalExtracted(base, text, client) ==
    UNION { { [base EXCEPT !.extractGoal = e, !.goal_regions = regions] :
                regions \in extract_regions_hybrid(text, client, e) } :
            e \in RequestExtractReplies }
CleanName(regions, text) == IF regions # <<>> THEN regions[1] ELSE text
CheckRouteOracles(start, goal, client, KAKAO_API_KEY) ==
    IF ~IsStr(start) \/ ~IsStr(goal) THEN { NoMcpOracle }
    ELSE UNION { UNION { RoutedOracles(g, CleanName(g.start_regions, start),
                                       CleanName(g.goal_regions, goal), client,
                                       KAKAO_API_KEY) :
                         g \in GoalExtracted(s, goal, client) } :
                 s \in StartExtracted(NoMcpOracle, start, client) }
GuideOracles(base) ==
    { [base EXCEPT !.ddg = ReplyRaise] }
    \cup { [base EXCEPT !.ddg = ReplyHttp(200, <<>>), !.chat = c] : c \in ChatReplies }
RouteAskedOracles(base, question, client, KAKAO_API_KEY) ==
    IF ~IsStr(question) THEN { base }
    ELSE UNION { IF Len(e.start_regions) < 2 THEN { e }
                 ELSE RoutedOracles(e, e.start_regions[1], e.start_regions[2], client,
                                    KAKAO_API_KEY) :
                 e \in StartExtracted(base, question, client) }
KeywordsOracles(base, rc, client) ==
    IF rc[2].given /\ ~IsStr(rc[2].country) THEN { base }
    ELSE UNION { IF ~k.ok THEN { [base EXCEPT !.keywords = k] }
                 ELSE { [base EXCEPT !.keywords = k, !.search = s] :
                          s \in SearchOracles(Take(k.keywords, MaxKeywords), 1, rc[1], client,
                                              rc[2],
                                              rc[2].given
                                              /\ lower(rc[2].country) \in KoreaNames) } :
                 k \in KeywordsReplies }
PlaceAskedOracles(base, question, client) ==
    UNION { KeywordsOracles([base EXCEPT !.context = c],
                            extract_regions_with_context(question, client, c), client) :
            c \in ContextReplies }
AdvisorOracles(t, question, client, KAKAO_API_KEY) ==
    IF ~t.ok THEN { [NoMcpOracle EXCEPT !.type = t] }
    ELSE IF t.type = Ascii("guide") THEN GuideOracles([NoMcpOracle EXCEPT !.type = t])
    ELSE IF t.type = Ascii("route")
         THEN RouteAskedOracles([NoMcpOracle EXCEPT !.type = t], question, client,
                                KAKAO_API_KEY)
    ELSE PlaceAskedOracles([NoMcpOracle EXCEPT !.type = t], question, client)
McpOracles(request, client, KAKAO_API_KEY) ==
    LET tool == ToolOf(request)
        args == request.body.params.arguments
    IN  IF tool = None \/ client = None \/ args.kind # "object" THEN { NoMcpOracle }
        ELSE IF tool \in { analyze_chat_history, calculate_budget }
             THEN { [NoMcpOracle EXCEPT !.chat = c] : c \in ChatReplies }
        ELSE IF tool = check_travel_route
             THEN CheckRouteOracles(GetOr(args.start, <<>>), GetOr(args.goal, <<>>), client,
                                    KAKAO_API_KEY)
        ELSE UNION { AdvisorOracles(t, GetOr(args.question, <<>>), client, KAKAO_API_KEY) :
                     t \in TypeReplies }

NoMcp ==
    [pc |-> "idle", request |-> HttpRequest("OPTIONS", <<>>, InvalidBody), client |-> None,
     KAKAO_API_KEY |-> <<>>, oracle |-> NoMcpOracle,
     handled |-> Handled(Unhandled, None, NoOutcome)]
IdleMcp == mcp = NoMcp

\* one request handled by handle_mcp
HandleMcp ==
    /\ mcp.pc = "request"
    /\ \E o \in McpOracles(mcp.request, mcp.client, mcp.KAKAO_API_KEY) :
          mcp' = [mcp EXCEPT
                     !.pc = "done",
                     !.oracle = o,
                     !.handled = handle_mcp(mcp.request, mcp.client, mcp.KAKAO_API_KEY, o)]
    /\ UNCHANGED exceptMcp

(***************************************************************************)
(* The server: the module-level state and the requests in flight           *)
(***************************************************************************)
GoogleMaps == <<"<googlemaps.Client>">>

\* the module-level objects after import: the clients made from the
\* environment (None without a key, or when the construction raised), the
\* Kakao key, the tool list, and what has been written to the lexicons
Module(client, gmaps, KAKAO_API_KEY) ==
    [client |-> client, gmaps |-> gmaps, KAKAO_API_KEY |-> KAKAO_API_KEY,
     TOOLS_LIST |-> TOOLS_LIST, lexiconWrites |-> <<>>]
\* the environments the server is started in
Modules ==
    { Module(client, None, <<>>) : client \in Clients }
    \cup { Module(client, GoogleMaps, Ascii("key")) : client \in Clients }

\* the response to tools/list holds the module-level list as it is when the
\* handler reads it
Listed(handled, tools) ==
    IF handled.response.kind = "json" /\ handled.response.json.result.kind = "tools"
    THEN Handled(JSONResponse(JsonRpc(handled.response.json.id,
                                      [kind |-> "tools", tools |-> tools])),
                 handled.tool, handled.outcome)
    ELSE handled
\* handle_mcp as the server runs it: the module-level names are read when the
\* handler uses them
ServerAnswer(module, request, o) ==
    Listed(handle_mcp(request, module.client, module.KAKAO_API_KEY, o), module.TOOLS_LIST)

\* a variant that empties the tool list in place when it lists the tools
\* without a completion client
ModuleAfterToolsFiltered(module, request, handled) ==
    IF module.client = None /\ request.body.method = Ascii("tools/list")
    THEN [module EXCEPT !.TOOLS_LIST = <<>>]
    ELSE module
\* a variant that drops the completion client when a tool's except clause ran
ModuleAfterClientDropped(module, request, handled) ==
    IF handled.outcome.failed THEN [module EXCEPT !.client = None] ELSE module
\* the module-level state after a handler has run: no handler assigns a
\* module-level name or mutates a module-level object
ModuleAfter(module, request, handled) == module

\* the requests the server is sent, and the replies their calls are given
ServerRequests ==
    { HttpRequest("POST", <<>>, Body(Ascii("tools/list"), Ascii("1"), NoParams)),
      HttpRequest("POST", <<>>, InvalidBody),
      HttpRequest("POST", <<>>,
                  Body(Ascii("tools/call"), Ascii("1"),
                       Params(analyze_chat_history,
                              FullArguments(Hangul("gang nam"), Hangul("gang nam"),
                                            Hangul("do kyo"))))),
      HttpRequest("POST", <<>>,
                  Body(Ascii("tools/call"), Ascii("1"),
                       Params(ask_travel_advisor,
                              FullArguments(Hangul("gang nam") \o Ascii(" ")
                                            \o Hangul("mas jip"),
                                            Ascii("LA"), Ascii("LA"))))) }
\* the replies of a place search that finds places: the context and the
\* keywords are extracted, Naver lists two items, both are kept, and Kakao
\* knows neither
PlaceFoundOracle ==
    [NoMcpOracle EXCEPT
        !.type = TypeReply(Ascii("place")),
        !.context = ContextReply(<<Hangul("gang nam")>>, Ascii("Korea"), Hangul("han guk")),
        !.keywords = KeywordsReply(<<Hangul("mas jip")>>),
        !.search = << [NoSearchOracle EXCEPT
                          !.dom1 = [NoDomesticOracle EXCEPT
                                       !.naver = ReplyHttp(200, <<I2, I1>>),
                                       !.filter1 = FilterReply(1..2),
                                       !.verify = << ReplyHttp(200, <<>>),
                                                     ReplyHttp(200, <<>>) >>]] >>]
\* the replies a request of the server is given: a reply for each call that the
\* request makes, and none for the calls that it does not make
ServerOracles(request, client, KAKAO_API_KEY) ==
    IF ToolOf(request) = None \/ client = None THEN { NoMcpOracle }
    ELSE IF ToolOf(request) = analyze_chat_history
         THEN { [NoMcpOracle EXCEPT !.chat = c] : c \in { ChatError, ChatReply(Ascii("plan")) } }
    ELSE { [NoMcpOracle EXCEPT !.type = TypeError],
           [NoMcpOracle EXCEPT !.type = TypeReply(Ascii("guide")),
                               !.ddg = ReplyHttp(200, <<>>),
                               !.chat = ChatReply(Ascii("plan"))],
           PlaceFoundOracle }
ServerPool ==
    UNION { { [request |-> request, client |-> module.client,
               KAKAO_API_KEY |-> module.KAKAO_API_KEY, oracle |-> o,
               calls |-> handle_mcp(request, module.client, module.KAKAO_API_KEY,
                                    o).outcome.calls] :
                o \in ServerOracles(request, module.client, module.KAKAO_API_KEY) } :
            request \in ServerRequests, module \in Modules }

NoServer == [boot |-> Module(None, None, <<>>), module |-> Module(None, None, <<>>),
             requests |-> <<>>]
IdleServer == server = NoServer

\* a request arrives: its handler starts; calls holds the calls it will make
\* and oracle the replies they will get
Arrive ==
    /\ Len(server.requests) < MaxRequests
    /\ \E c \in ServerPool :
          /\ c.client = server.module.client
          /\ c.KAKAO_API_KEY = server.module.KAKAO_API_KEY
          /\ server' = [server EXCEPT
                           !.requests = Append(@, [request |-> c.request,
                                                   oracle |-> c.oracle,
                                                   calls |-> c.calls, at |-> 0,
                                                   pc |-> "running", after |-> 0,
                                                   handled |-> Handled(Unhandled, None,
                                                                       NoOutcome)])]
    /\ UNCHANGED exceptServer

\* a handler is resumed with the reply to the call it awaits, and runs to its
\* next call: it binds and changes its own locals only
Resume(i) ==
    /\ server.requests[i].pc = "running"
    /\ server.requests[i].at < Len(server.requests[i].calls)
    /\ server' = [server EXCEPT !.requests[i].at = @ + 1]
    /\ UNCHANGED exceptServer

\* the requests answered so far
Answered == Cardinality({ j \in DOMAIN server.requests : server.requests[j].pc = "done" })

\* a handler past its last call builds its response and returns; after holds
\* the number of requests answered before it
Respond(i) ==
    /\ server.requests[i].pc = "running"
    /\ server.requests[i].at = Len(server.requests[i].calls)
    /\ \E handled \in { ServerAnswer(server.module, server.requests[i].request,
                                      server.requests[i].oracle) } :
          server' = [server EXCEPT
                        !.requests[i].pc = "done",
                        !.requests[i].after = Answered,
                        !.requests[i].handled = handled,
                        !.module = ModuleAfter(server.module, server.requests[i].request,
                                               handled)]
    /\ UNCHANGED exceptServer

(***************************************************************************)
(* The Region Extractor called twice with the same text and reply          *)
(***************************************************************************)
\* the regions that extract_regions_hybrid puts in a set before it sorts them
RegionCandidates(text, client, reply) ==
    IF client = None \/ ~reply.ok THEN FastRegionsIn(text)
    ELSE FastRegionsIn(text) \cup reply.regions

\* a set of str is listed in the order of the hashes of its members, which a
\* process draws from the seed it is started with: in one process the same
\* set built the same way is listed the same way, and the stable sort by
\* length keeps that order among regions of equal length
HashOrders(text, client, reply) == SortedByLenDesc(RegionCandidates(text, client, reply))

RepeatTexts == TextsUpTo({ Hangul("seo 'ul"), Hangul("bu san"), Ascii("Tokyo") }, MaxTextWords)
RepeatReplies ==
    { ReplyError, ReplyRegions({}), ReplyRegions({ Hangul("do kyo") }),
      ReplyRegions({ Hangul("sung sil dae"), Hangul("je ju") }) }

NoRepeat == [pc |-> "idle", text |-> <<>>, client |-> None, reply |-> ReplyError,
             order |-> <<>>, restarted |-> FALSE, first |-> <<>>, second |-> <<>>]
IdleRepeat == repeat = NoRepeat

\* the first call extract_regions_hybrid(text, client)
ExtractFirst ==
    /\ repeat.pc = "first"
    /\ repeat' = [repeat EXCEPT !.pc = "second", !.first = Take(repeat.order, 3)]
    /\ UNCHANGED exceptRepeat

\* the server is started again (or another worker takes the next request):
\* the new process draws its own hash seed
Restart ==
    /\ repeat.pc = "second"
    /\ ~repeat.restarted
    /\ \E order \in HashOrders(repeat.text, repeat.client, repeat.reply) :
          repeat' = [repeat EXCEPT !.order = order, !.restarted = TRUE]
    /\ UNCHANGED exceptRepeat

\* a later call with the same text, to which the completion service gives the
\* same reply
ExtractAgain ==
    /\ repeat.pc = "second"
    /\ repeat' = [repeat EXCEPT !.pc = "done", !.second = Take(repeat.order, 3)]
    /\ UNCHANGED exceptRepeat

(***************************************************************************)
(* The relevance filter called with lists of up to MaxCandidates names     *)
(***************************************************************************)
\* place_names[:30]: the names that places_text numbers and lists
BatchLimit == 30

\* a variant that lists every name in the prompt
PlacesTextWhole(place_names) == [i \in 1..Len(place_names) |-> [i |-> i, name |-> place_names[i]]]
\* places_text: the lines "i. name" of the prompt
PlacesText(place_names) ==
    [i \in 1..Len(Take(place_names, BatchLimit)) |-> [i |-> i, name |-> place_names[i]]]

\* the prompts that filter_relevant_places_batch sends to the completion
\* service: none without names or without a client, else one
FilterPrompts(place_names, client) ==
    IF place_names = <<>> \/ client = None THEN <<>>
    ELSE << PlacesText(place_names) >>

\* the orders in which a set of ints is iterated: ascending when the set is
\* 1..n, else an order that follows the slots of the hash table, of which
\* every one is allowed here
RECURSIVE Orders(_)
Orders(S) ==
    IF S = {} THEN { <<>> }
    ELSE UNION { { <<x>> \o q : q \in Orders(S \ {x}) } : x \in S }
IndexOrders(S) ==
    IF S = 1..Cardinality(S) THEN { Ascending(S) } ELSE Orders(S)

\* the lists filter_relevant_places_batch can return
FilteredNames(place_names, client, reply) ==
    IF place_names = <<>> \/ client = None THEN { place_names }
    ELSE IF ~reply.ok THEN { place_names }
    ELSE { [k \in 1..Len(picked) |-> place_names[picked[k]]] :
             picked \in IndexOrders({ i \in reply.relevant_indices :
                                        1 <= i /\ i <= Len(place_names) }) }

\* the candidate names: n distinct names, as many as a pass of search_domestic
\* can collect
CandidateName(i) == <<"p", i>>
CandidateLengths == { 0, 1, 2, 3, BatchLimit - 1, BatchLimit, BatchLimit + 1, MaxCandidates }
BatchReplies(n) ==
    { FilterError, FilterReply({}), FilterReply(1..n), FilterReply({1}), FilterReply({n}),
      FilterReply({1, n}), FilterReply({0, n + 1}), FilterReply({2, BatchLimit + 1}),
      FilterReply({1, 8, n}) }

NoBatch == [pc |-> "idle", place_names |-> <<>>, client |-> None, reply |-> FilterError,
            prompts |-> <<>>, result |-> <<>>]
IdleBatch == batch = NoBatch

\* one call filter_relevant_places_batch(place_names, keyword, client)
FilterRelevantPlacesBatch ==
    /\ batch.pc = "call"
    /\ \E result \in FilteredNames(batch.place_names, batch.client, batch.reply) :
          batch' = [batch EXCEPT
                       !.pc = "done",
                       !.prompts = FilterPrompts(batch.place_names, batch.client),
                       !.result = result]
    /\ UNCHANGED exceptBatch

(***************************************************************************)
(* Specifications: one per component, each over the whole state            *)
(***************************************************************************)
InitRegions ==
    /\ \E text \in ExtractTexts, client \in Clients, reply \in ExtractReplies :
          \* without a client no request is made, and there is no reply
          /\ client = None => reply = ReplyError
          /\ extract = [pc |-> "call", text |-> text, client |-> client,
                        reply |-> reply, result |-> <<>>]
    /\ IdleRoute
    /\ IdleIntl
    /\ IdleDomestic
    /\ IdleCountry
    /\ IdleMcp
    /\ IdleServer
    /\ IdleRepeat
    /\ IdleBatch

NextRegions == ExtractRegionsHybrid

SpecRegions == InitRegions /\ [][NextRegions]_vars

InitRoute ==
    /\ \E start \in RouteNames, goal \in RouteNames, client \in Clients,
          KAKAO_API_KEY \in KakaoKeys :
          \E start_original \in Originals(start), goal_original \in Originals(goal) :
              route = [NoRoute EXCEPT
                          !.pc = "call", !.start = start, !.goal = goal,
                          !.start_original = start_original,
                          !.goal_original = goal_original, !.client = client,
                          !.KAKAO_API_KEY = KAKAO_API_KEY]
    /\ IdleExtract
    /\ IdleIntl
    /\ IdleDomestic
    /\ IdleCountry
    /\ IdleMcp
    /\ IdleServer
    /\ IdleRepeat
    /\ IdleBatch

NextRoute == GetRouteInfo

SpecRoute == InitRoute /\ [][NextRoute]_vars

InitIntl ==
    /\ \E keyword \in IntlKeywords, regions \in IntlRegions, client \in Clients,
          country_context \in CountryContexts :
          intl = [NoIntl EXCEPT
                     !.pc = "call", !.keyword = keyword, !.regions = regions,
                     !.client = client, !.country_context = country_context]
    /\ IdleExtract
    /\ IdleRoute
    /\ IdleDomestic
    /\ IdleCountry
    /\ IdleMcp
    /\ IdleServer
    /\ IdleRepeat
    /\ IdleBatch

NextIntl == SearchInternational

SpecIntl == InitIntl /\ [][NextIntl]_vars

InitDomestic ==
    /\ \E keyword \in DomesticKeywords, regions \in DomesticRegions, client \in Clients,
          retry \in BOOLEAN :
          domestic = [NoDomestic EXCEPT
                         !.pc = "call", !.keyword = keyword, !.regions = regions,
                         !.client = client, !.retry = retry]
    /\ IdleExtract
    /\ IdleRoute
    /\ IdleIntl
    /\ IdleCountry
    /\ IdleMcp
    /\ IdleServer
    /\ IdleRepeat
    /\ IdleBatch

NextDomestic == SearchDomestic

SpecDomestic == InitDomestic /\ [][NextDomestic]_vars

InitCountry ==
    /\ IdleDomestic
    /\ IdleCountry
    /\ IdleMcp
    /\ IdleExtract
    /\ IdleRoute
    /\ IdleIntl
    /\ IdleServer
    /\ IdleRepeat
    /\ IdleBatch

NextCountry == GetCountryForCity

SpecCountry == InitCountry /\ [][NextCountry]_vars

Init ==
    /\ \E request \in RequestPool, client \in Clients, KAKAO_API_KEY \in KakaoKeys :
          mcp = [NoMcp EXCEPT !.pc = "request", !.request = request, !.client = client,
                              !.KAKAO_API_KEY = KAKAO_API_KEY]
    /\ IdleExtract
    /\ IdleRoute
    /\ IdleIntl
    /\ IdleDomestic
    /\ IdleCountry
    /\ IdleServer
    /\ IdleRepeat
    /\ IdleBatch

Next == HandleMcp

Spec == Init /\ [][Next]_vars

InitServer ==
    /\ \E module \in Modules :
          server = [boot |-> module, module |-> module, requests |-> <<>>]
    /\ IdleExtract
    /\ IdleRoute
    /\ IdleIntl
    /\ IdleDomestic
    /\ IdleCountry
    /\ IdleMcp
    /\ IdleRepeat
    /\ IdleBatch

NextServer ==
    \/ Arrive
    \/ \E i \in DOMAIN server.requests : Resume(i)
    \/ \E i \in DOMAIN server.requests : Respond(i)

SpecServer == InitServer /\ [][NextServer]_vars

InitRepeat ==
    /\ \E text \in RepeatTexts, client \in Clients, reply \in RepeatReplies :
          \* without a client no request is made, and there is no reply
          /\ client = None => reply = ReplyError
          /\ \E order \in HashOrders(text, client, reply) :
                repeat = [NoRepeat EXCEPT !.pc = "first", !.text = text,
                                          !.client = client, !.reply = reply,
                                          !.order = order]
    /\ IdleExtract
    /\ IdleRoute
    /\ IdleIntl
    /\ IdleDomestic
    /\ IdleCountry
    /\ IdleMcp
    /\ IdleServer
    /\ IdleBatch

NextRepeat == ExtractFirst \/ Restart \/ ExtractAgain

SpecRepeat == InitRepeat /\ [][NextRepeat]_vars

InitBatch ==
    /\ \E n \in CandidateLengths, client \in Clients :
          \E reply \in BatchReplies(n) :
              \* without a client or without names no request is made
              /\ (client = None \/ n = 0) => reply = FilterError
              /\ batch = [NoBatch EXCEPT
                              !.pc = "call",
                              !.place_names = [i \in 1..n |-> CandidateName(i)],
                              !.client = client, !.reply = reply]
    /\ IdleExtract
    /\ IdleRoute
    /\ IdleIntl
    /\ IdleDomestic
    /\ IdleCountry
    /\ IdleMcp
    /\ IdleServer
    /\ IdleRepeat

NextBatch == FilterRelevantPlacesBatch

SpecBatch == InitBatch /\ [][NextBatch]_vars

(***************************************************************************)
(* Claims                                                                  *)
(***************************************************************************)
\* C8 as stated: every lexicon entry that occurs in the text is in the list
\* extract_regions_hybrid returns, whatever the completion service does.
C8_AllFoundReturned ==
    extract.pc = "done" =>
        \A region \in FAST_REGIONS :
            In(region, extract.text) => region \in Range(extract.result)

\* C8 (amended): every lexicon entry that occurs in the text, in any letter
\* case, is in the list extract_regions_hybrid returns, unless the list already
\* holds 3 regions each at least as long as the entry: the list is cut to the 3
\* longest of the lexicon matches and the completion service's regions.
C8_FoundReturnedOrCut ==
    extract.pc = "done" =>
        \A region \in FastRegionsIn(extract.text) :
            \/ region \in Range(extract.result)
            \/ /\ Len(extract.result) = 3
               /\ \A i \in 1..3 : Len(extract.result[i]) >= Len(region)

\* the completion service names regions, the text holds lexicon entries in
\* another letter case, and one match is cut from the list
C8_Witness ==
    /\ extract.pc = "done"
    /\ extract.client # None /\ extract.reply.ok /\ extract.reply.regions # {}
    /\ Ascii("tokyo") \in Range(extract.result)
    /\ \E region \in FastRegionsIn(extract.text) : region \notin Range(extract.result)

\* C9: get_country_for_city is idempotent: a later call with the string of an
\* earlier call returns the country (or not-found) the earlier call returned,
\* whatever calls were made in between.
C9_Idempotent ==
    (firstCall.made /\ lastCall.made /\ lastCall.arg = firstCall.arg)
        => lastCall.result = firstCall.result

\* a region resolved by substring overlap is resolved a second time after a
\* call for another region
C9_Witness ==
    /\ firstCall.made /\ lastCall.made
    /\ firstCall.arg = Hangul("do kyo 'yeok") /\ lastCall.arg = firstCall.arg
    /\ firstCall.result = Ascii("Japan")

\* C10: when start and goal are both members of INTERNATIONAL_CITIES, the
\* text returned by get_route_info holds exactly two deep links, a driving
\* one and a transit one, whose origin and destination are the URL-encoded
\* translations of the inputs.
C10_TwoDeepLinks ==
    ( /\ route.pc = "done"
      /\ route.start \in INTERNATIONAL_CITIES
      /\ route.goal \in INTERNATIONAL_CITIES
      /\ ~route.result.raised )
    => LET text == route.result.text
           links == { i \in DOMAIN text : text[i].k = "url" }
           origin == quote(translate_to_english(route.start_original, route.client,
                                                route.oracle.trStart))
           destination == quote(translate_to_english(route.goal_original, route.client,
                                                     route.oracle.trGoal))
       IN  /\ Cardinality(links) = 2
           /\ \E i \in links : text[i] = GoogleDirLink(origin, destination, "driving")
           /\ \E i \in links : text[i] = GoogleDirLink(origin, destination, "transit")

\* C7: no place listed in the text returned by search_international has a
\* formatted address holding a domestic-country marker, whatever the case of
\* its letters; when every result of the provider carries a marker, the text
\* is the 'no results' text.
C7_CarriesMarker(p) ==
    \E kr \in KoreanMarkers : In(lower(kr), lower(GetOr(p.formatted_address, <<>>)))
C7_NoDomesticListed ==
    intl.pc = "done"
    => LET results == intl.oracle.places.documents
       IN  /\ \A i \in DOMAIN intl.result :
                  intl.result[i].k = "place"
                  => \A j \in DOMAIN results :
                         results[j].place_id = intl.result[i].url.place_id
                         => ~C7_CarriesMarker(results[j])
           /\ ( /\ intl.oracle.places.kind = "http"
                /\ \A j \in DOMAIN results : C7_CarriesMarker(results[j]) )
              => intl.result = <<SearchNoResult(intl.keyword)>>
C7_Witness ==
    /\ intl.pc = "done"
    /\ \E j \in DOMAIN intl.oracle.places.documents :
          intl.oracle.places.documents[j].formatted_address = Ascii("Seoul, South Korea")
    /\ \E i \in DOMAIN intl.result : intl.result[i].k = "place"

\* C5 (as stated): every place returned by the search pipeline has passed a
\* relevance check: its address matched a region name, or the LLM relevance
\* filter selected it -- in the second pass by its name, or in the first pass
\* by the name whose verification brought it in (a landmark hit is brought in
\* by no name) -- also when the filter is absent or fails.
C5_SecondPassAnswered ==
    /\ domestic.client # None
    /\ domestic.oracle.filter2.ok
    /\ KakaoCandidates(domestic.keyword, domestic.regions, domestic.client,
                       domestic.retry, domestic.oracle) # <<>>
C5_FirstPassAnswered ==
    /\ domestic.client # None
    /\ domestic.oracle.filter1.ok
    /\ CandidateNames(NaverItems(domestic.keyword, domestic.regions, domestic.retry,
                                 domestic.oracle)) # <<>>
C5_LandmarkIds ==
    { p.id : p \in Range(DirectResults(domestic.oracle.landmark, 1)) }
C5_EveryPlaceChecked ==
    domestic.pc = "done"
    => \A p \in Range(domestic.result) :
           \/ \E region \in expand_regions(domestic.regions) :
                  In(lower(region), lower(GetOr(p.address_name, <<>>) \o Ascii(" ")
                                          \o GetOr(p.road_address_name, <<>>)))
           \/ C5_SecondPassAnswered
           \/ C5_FirstPassAnswered /\ p.id \notin C5_LandmarkIds

\* C5 (amended): when the completion service answers the second-pass
\* relevance request, every returned place bears a name the answer selected;
\* when the filter is absent or its request fails, it fails open and the
\* returned places are all the collected candidates.
C5_SelectedOrFailOpen ==
    domestic.pc = "done"
    => LET cands == KakaoCandidates(domestic.keyword, domestic.regions, domestic.client,
                                    domestic.retry, domestic.oracle)
       IN  IF C5_SecondPassAnswered
           THEN \A p \in Range(domestic.result) :
                    \E i \in domestic.oracle.filter2.relevant_indices :
                        /\ i \in DOMAIN cands
                        /\ cands[i].place_name = p.place_name
           ELSE domestic.result = cands
C5_Witness ==
    /\ domestic.pc = "done"
    /\ C5_SecondPassAnswered
    /\ domestic.result # <<>>
    /\ Len(domestic.result)
          < Len(KakaoCandidates(domestic.keyword, domestic.regions, domestic.client,
                                domestic.retry, domestic.oracle))

\* C6: when regions are given and none of them is recognised as a landmark,
\* every candidate returned by search_domestic has an address or a road
\* address that holds an expanded-region token, whatever the case of the
\* letters.
C6_AddressHoldsRegion ==
    ( /\ domestic.pc = "done"
      /\ domestic.regions # <<>>
      /\ LandmarkKeywords(domestic.regions) = <<>> )
    => \A p \in Range(domestic.result) :
           \E region \in expand_regions(domestic.regions) :
               \/ In(lower(region), lower(GetOr(p.address_name, <<>>)))
               \/ In(lower(region), lower(GetOr(p.road_address_name, <<>>)))

\* C1: a POST whose body is not parseable JSON is answered HTTP 400, and
\* neither a tool handler nor an LLM or provider call is invoked for it.
C1_InvalidJson400 ==
    ( /\ mcp.pc = "done"
      /\ mcp.request.method = "POST"
      /\ mcp.request.body.json = "invalid" )
    => /\ mcp.handled.response.kind = "response"
       /\ mcp.handled.response.status_code = 400
       /\ mcp.handled.tool = None
       /\ mcp.handled.outcome.calls = <<>>
C1_Witness ==
    /\ mcp.pc = "done"
    /\ mcp.request.method = "POST"
    /\ AcceptOk(mcp.request.accept)
    /\ mcp.request.body.json = "invalid"
    /\ mcp.client # None
    /\ mcp.handled.response.content = Ascii("Invalid JSON")

\* C2: a POST (with an Accept header the server takes) whose body parses as a
\* JSON object with method 'tools/call' is answered by a JSON-RPC result
\* envelope carrying one text content item: no error raised while the call is
\* processed leaves handle_mcp.
C2_CallAlwaysEnveloped ==
    ( /\ mcp.pc = "done"
      /\ mcp.request.method = "POST"
      /\ AcceptOk(mcp.request.accept)
      /\ mcp.request.body.json = "object"
      /\ mcp.request.body.method = Ascii("tools/call") )
    => /\ mcp.handled.response.kind = "json"
       /\ mcp.handled.response.json.result.kind = "call"
       /\ Len(mcp.handled.response.json.result.content) = 1
       /\ mcp.handled.response.json.result.content[1].type = "text"

\* the guide branch of ask_travel_advisor was entered and its web search or
\* its completion failed
C3_GuideFailure ==
    /\ mcp.handled.tool = ask_travel_advisor
    /\ mcp.client # None
    /\ mcp.request.body.params.arguments.kind = "object"
    /\ mcp.oracle.type = TypeReply(Ascii("guide"))
    /\ (mcp.oracle.ddg.kind = "raise" \/ ~mcp.oracle.chat.ok)

\* C3: in every tools/call response the dispatcher produces, for any tool
\* name, arguments and replies of the services, isError is false; when the
\* except clause of the tool ran the text content is the tool's error text,
\* and when the guide branch failed it is the fixed failure text.
C3_NeverIsError ==
    ( /\ mcp.pc = "done"
      /\ mcp.handled.response.kind = "json"
      /\ mcp.handled.response.json.result.kind = "call" )
    => /\ mcp.handled.response.json.result.isError = FALSE
       /\ mcp.handled.outcome.failed
          => mcp.handled.response.json.result.content[1].text
                \in { AnalyzeError, AdvisorError, RouteError, BudgetError }
       /\ C3_GuideFailure
          => mcp.handled.response.json.result.content[1].text = GuideFailed
C3_Witness ==
    /\ mcp.pc = "done"
    /\ mcp.handled.response.kind = "json"
    /\ mcp.handled.response.json.result.kind = "call"
    /\ mcp.handled.outcome.failed
    /\ mcp.handled.outcome.calls # <<>>

\* C4: with no completion-service client, a tools/call to any of the four
\* tools returns the fixed unavailable text and invokes no LLM, map, search or
\* directions call.
C4_UnavailableWithoutClient ==
    ( /\ mcp.pc = "done"
      /\ mcp.client = None
      /\ mcp.request.method = "POST"
      /\ AcceptOk(mcp.request.accept)
      /\ mcp.request.body.json = "object"
      /\ mcp.request.body.method = Ascii("tools/call")
      /\ mcp.request.body.params.kind = "object"
      /\ mcp.request.body.params.name \in ToolNames )
    => /\ mcp.handled.response.kind = "json"
       /\ mcp.handled.response.json.result.kind = "call"
       /\ mcp.handled.response.json.result.content[1].text = Unavailable
       /\ mcp.handled.outcome.calls = <<>>

\* the domestic branch of a call of get_route_info that has returned, and what
\* its provider replies gave
C11_Resolved(keyword, replies) == Truthy(get_xy(keyword, route.KAKAO_API_KEY, replies)[1])
C11_BothResolved ==
    /\ route.pc = "done"
    /\ ~route.result.raised
    /\ ~is_international_route(route.start, route.goal)
    /\ route.client # None /\ route.oracle.classify.ok
    /\ ~route.oracle.classify.is_international
    /\ C11_Resolved(route.start, route.oracle.geoStart)
    /\ C11_Resolved(route.goal, route.oracle.geoGoal)
C11_HasRoute ==
    /\ route.oracle.navi.kind = "http"
    /\ route.oracle.navi.status = 200
    /\ route.oracle.navi.documents # <<>>
\* 'H sigan M bun' from 3600 seconds on, 'M bun' below
C11_DurationText(d) ==
    IF d >= 3600
    THEN Str(d \div 3600) \o Hangul("si gan") \o Ascii(" ") \o Str((d % 3600) \div 60)
         \o Hangul("bun")
    ELSE Str(d \div 60) \o Hangul("bun")

\* C11 as stated: in the domestic branch of get_route_info, whenever both
\* endpoints resolve to coordinates the returned text contains a duration, and
\* the duration of a route of d seconds is printed as hours and minutes from
\* 3600 seconds on and as minutes below.
C11_DurationAlways ==
    C11_BothResolved =>
        \E i \in DOMAIN route.result.text :
            /\ route.result.text[i].k = "car"
            /\ C11_HasRoute =>
                 route.result.text[i].time
                     = C11_DurationText(route.oracle.navi.documents[1].duration)

\* C11 (amended): in the domestic branch of get_route_info, whenever both
\* endpoints resolve to coordinates and the directions request answers 200
\* with a route, the returned text contains the duration of that route, printed
\* as hours and minutes from 3600 seconds on and as minutes below.
C11_DurationOfRoute ==
    (C11_BothResolved /\ C11_HasRoute) =>
        \E i \in DOMAIN route.result.text :
            /\ route.result.text[i].k = "car"
            /\ route.result.text[i].time
                   = C11_DurationText(route.oracle.navi.documents[1].duration)

\* a route of one hour, one minute and one second
C11_Witness ==
    /\ C11_BothResolved
    /\ C11_HasRoute
    /\ route.oracle.navi.documents[1].duration = 3661
    /\ \E i \in DOMAIN route.result.text :
          /\ route.result.text[i].k = "car"
          /\ route.result.text[i].time
                 = Ascii("1") \o Hangul("si gan") \o Ascii(" 1") \o Hangul("bun")

\* C17: when the fast path is inconclusive and the classification fails (the
\* request raises or times out, the content is no JSON object, or there is no
\* client to ask), get_route_info takes the international branch: no
\* geocoding, directions or conversion request is made, and the text it
\* returns is the header and the two Google Maps direction links.
C17_ClassifierFailed ==
    /\ route.pc = "done"
    /\ ~is_international_route(route.start, route.goal)
    /\ (route.client = None \/ ~route.oracle.classify.ok)
C19_Converted(reply) == reply.kind = "http" /\ reply.documents # <<>>
C19_Domestic ==
    /\ route.pc = "done"
    /\ ~route.result.raised
    /\ ~is_international_route(route.start, route.goal)
    /\ route.client # None /\ route.oracle.classify.ok
    /\ ~route.oracle.classify.is_international
C19_Car == { i \in DOMAIN route.result.text : route.result.text[i].k = "car" }
C19_Transit ==
    { i \in DOMAIN route.result.text :
        route.result.text[i].k = "url" /\ route.result.text[i].site = "https://map.kakao.com/" }
C19_WhicheverSucceeded ==
    C11_BothResolved =>
        /\ (C19_Car # {}) = C11_HasRoute
        /\ (C19_Transit # {})
               = (C19_Converted(route.oracle.convStart) /\ C19_Converted(route.oracle.convGoal))
        /\ Cardinality(C19_Car) <= 1 /\ Cardinality(C19_Transit) <= 1
        /\ \A i \in C19_Car, j \in C19_Transit : i < j
        /\ (C19_Car = {} /\ C19_Transit = {}) = (route.result.text = <<RouteFailed>>)
        /\ route.result.text # <<PlaceNotFound>>

\* C19 as stated: in the domestic branch of get_route_info the result contains
\* whichever of the driving summary and the transit link succeeded, and the
\* 'place not found' marker is returned only when neither endpoint resolved to
\* coordinates.
C19_MarkerOnlyWhenNeither ==
    /\ C19_WhicheverSucceeded
    /\ (C19_Domestic /\ route.result.text = <<PlaceNotFound>>)
           => /\ ~C11_Resolved(route.start, route.oracle.geoStart)
              /\ ~C11_Resolved(route.goal, route.oracle.geoGoal)

\* C19 (amended): in the domestic branch of get_route_info the result contains
\* whichever of the driving summary and the transit link succeeded (both, when
\* both succeed), and the 'place not found' marker is returned exactly when at
\* least one of the two endpoints did not resolve to coordinates.
C19_MarkerUnlessBoth ==
    /\ C19_WhicheverSucceeded
    /\ C19_Domestic =>
           (route.result.text = <<PlaceNotFound>>)
               = ~( /\ C11_Resolved(route.start, route.oracle.geoStart)
                    /\ C11_Resolved(route.goal, route.oracle.geoGoal) )

\* the directions request fails and the conversion succeeds: the text holds
\* the transit link alone
C19_Witness ==
    /\ C11_BothResolved
    /\ ~C11_HasRoute
    /\ C19_Car = {} /\ C19_Transit # {}

\* C18: on every path of extract_regions_hybrid (no client, the completion
\* service answers, the completion service fails) the returned list holds at
\* most 3 regions, holds no region twice and is ordered by non-increasing
\* length; a failure of the completion service does not reach the caller, who
\* gets the lexicon matches alone.
C18_ShortDistinctSorted ==
    extract.pc = "done" =>
        LET result == extract.result
        IN  /\ Len(result) <= 3
            /\ \A i, j \in DOMAIN result : i # j => result[i] # result[j]
            /\ \A i, j \in DOMAIN result : i < j => Len(result[i]) >= Len(result[j])
            /\ (extract.client = None \/ ~extract.reply.ok)
                   => \A i \in DOMAIN result :
                          In(lower(result[i]), lower(extract.text))

\* the completion service fails on a text that holds more than three lexicon
\* entries of different lengths
C18_Witness ==
    /\ extract.pc = "done"
    /\ extract.client # None /\ ~extract.reply.ok
    /\ Len(extract.result) = 3
    /\ Len(extract.result[1]) > Len(extract.result[3])
    /\ Cardinality(FastRegionsIn(extract.text)) > 3

\* the completion service names a region that the lexicon also finds
C18_MergedWitness ==
    /\ extract.pc = "done"
    /\ extract.client # None /\ extract.reply.ok
    /\ extract.reply.regions \cap FastRegionsIn(extract.text) # {}
    /\ Len(extract.result) = 3

\* C13: transport validation precedes all tool logic in handle_mcp.  OPTIONS
\* is answered 200 and every other method but POST 405, whatever the body
\* holds; a POST whose Accept header names none of the accepted types is
\* answered 400 before its body is parsed, and a POST whose body is no JSON is
\* answered 400 before its method field is read; none of these requests enters
\* a tool branch or makes a call.
C13_Rejected(status_code) ==
    /\ mcp.handled.response.kind = "response"
    /\ mcp.handled.response.status_code = status_code
    /\ mcp.handled.tool = None
    /\ mcp.handled.outcome.calls = <<>>
C13_TransportFirst ==
    mcp.pc = "done" =>
        /\ mcp.request.method = "OPTIONS" => C13_Rejected(200)
        /\ mcp.request.method \notin {"OPTIONS", "POST"} => C13_Rejected(405)
        /\ (mcp.request.method = "POST" /\ mcp.request.accept = Ascii("text/html"))
               => /\ C13_Rejected(400)
                  /\ mcp.handled.response.content # Ascii("Invalid JSON")
        /\ ( /\ mcp.request.method = "POST"
             /\ mcp.request.accept # Ascii("text/html")
             /\ mcp.request.body.json = "invalid" )
               => /\ C13_Rejected(400)
                  /\ mcp.handled.response.content = Ascii("Invalid JSON")

\* a well-formed call of a tool, sent with an Accept header that is not taken
\* while the completion service is configured
C13_Witness ==
    /\ mcp.pc = "done"
    /\ mcp.request.method = "POST"
    /\ mcp.request.accept = Ascii("text/html")
    /\ mcp.client # None
    /\ mcp.request.body.json = "object"
    /\ mcp.request.body.method = Ascii("tools/call")
    /\ mcp.request.body.params.kind = "object"
    /\ mcp.request.body.params.name = analyze_chat_history
    /\ mcp.request.body.params.arguments.kind = "object"
    /\ mcp.request.body.params.arguments.chat_log # Absent
    /\ C13_Rejected(400)

\* a GET whose body is no JSON is answered 405, not 400
C13_UnparsedWitness ==
    /\ mcp.pc = "done"
    /\ mcp.request.method = "GET"
    /\ mcp.request.body.json = "invalid"
    /\ C13_Rejected(405)

\* a place question of ask_travel_advisor whose country context names a
\* country
C14_KoreaNames == { Ascii("korea"), Ascii("south korea"), Hangul("han guk") }
C14_PlaceAsked ==
    /\ mcp.pc = "done"
    /\ mcp.handled.tool = ask_travel_advisor
    /\ mcp.client # None
    /\ mcp.request.body.params.arguments.kind = "object"
    /\ mcp.oracle.type.ok
    /\ mcp.oracle.type.type \notin { Ascii("guide"), Ascii("route") }
    /\ mcp.oracle.context.ok
    /\ IsStr(mcp.oracle.context.country)
C14_Text == mcp.handled.outcome.text

\* C14: for an ask_travel_advisor call of place intent whose country context
\* resolves to a country other than Korea, only the international pipeline is
\* run for the keywords, and every map link of the result text is a Google
\* Maps place link: the text holds no Naver or Kakao link.
C14_AbroadOnlyGoogle ==
    (C14_PlaceAsked /\ lower(mcp.oracle.context.country) \notin C14_KoreaNames)
        => /\ \A i \in DOMAIN mcp.handled.outcome.calls :
                  mcp.handled.outcome.calls[i] # "search_domestic"
           /\ \A i \in DOMAIN C14_Text :
                  /\ C14_Text[i].k \notin {"entry", "url"}
                  /\ C14_Text[i].k = "place"
                         => C14_Text[i].url.site = "https://www.google.com/maps/place/"

\* the country is Japan and the provider lists a place
C14_Witness ==
    /\ C14_PlaceAsked
    /\ mcp.oracle.context.country = Ascii("Japan")
    /\ \E i \in DOMAIN mcp.handled.outcome.calls :
          mcp.handled.outcome.calls[i] = "search_international"
    /\ \E i \in DOMAIN C14_Text : C14_Text[i].k = "place"

\* the fields the schema of a declared tool marks as required
C15_Required(name) ==
    UNION { IF TOOLS_LIST[i].name = name THEN TOOLS_LIST[i].required ELSE {} :
            i \in DOMAIN TOOLS_LIST }
C15_Declared == { TOOLS_LIST[i].name : i \in DOMAIN TOOLS_LIST }

\* C15: every tools/call is validated against the declared tool schemas before
\* a handler runs: a call whose name is none of the four declared tools, or
\* whose arguments lack a field that the schema of its tool requires, enters no
\* tool branch that answers it as a successful invocation.
C15_ValidatedFirst ==
    ( /\ mcp.pc = "done"
      /\ mcp.request.method = "POST"
      /\ mcp.request.accept # Ascii("text/html")
      /\ mcp.request.body.json = "object"
      /\ mcp.request.body.method = Ascii("tools/call")
      /\ mcp.request.body.params.kind = "object"
      /\ mcp.request.body.params.name # Absent
      /\ mcp.request.body.params.arguments.kind = "object"
      /\ \/ mcp.request.body.params.name \notin C15_Declared
         \/ \E f \in C15_Required(mcp.request.body.params.name) :
                mcp.request.body.params.arguments[f] = Absent )
    => ~( /\ mcp.handled.tool # None
          /\ mcp.handled.response.kind = "json"
          /\ mcp.handled.response.json.result.kind = "call"
          /\ ~mcp.handled.response.json.result.isError )

\* the places listed for the i-th keyword of a domestic place question: the
\* first pass of search_domestic with the retry pass merged into it
C20_Domestic ==
    /\ C14_PlaceAsked
    /\ lower(mcp.oracle.context.country) \in C14_KoreaNames
    /\ mcp.oracle.keywords.ok
C20_Searched ==
    { i \in DOMAIN mcp.oracle.search :
        /\ IsStr(mcp.oracle.keywords.keywords[i])
        /\ strip(mcp.oracle.keywords.keywords[i]) # <<>> }
C20_Places(i) ==
    DomesticPlaces(mcp.oracle.keywords.keywords[i], mcp.oracle.context.regions, mcp.client,
                   mcp.oracle.search[i]).places
C20_SamePlace(p, q) ==
    /\ p.place_name = q.place_name
    /\ p.place_url = q.place_url
    /\ p.address_name = q.address_name
    /\ p.road_address_name = q.road_address_name
    /\ p.phone = q.phone

\* C20: within one request the place list of a keyword is deduplicated by
\* identifier: after search_domestic, and after the retry pass has been merged
\* into a thin first pass, no two entries share an identifier, and a place
\* found by both passes (a placeholder candidate made of the secondary
\* provider's data included) is listed once.
C20_ListedOnce ==
    C20_Domestic =>
        \A i \in C20_Searched :
            \A a, b \in DOMAIN C20_Places(i) :
                a # b => /\ C20_Places(i)[a].id # C20_Places(i)[b].id
                         /\ ~C20_SamePlace(C20_Places(i)[a], C20_Places(i)[b])

\* C12: every answer to a tools/list request holds exactly 4 tool definitions,
\* named analyze_chat_history, ask_travel_advisor, check_travel_route and
\* calculate_budget, with or without a completion client, a maps client and a
\* Kakao key, and whatever requests the server has answered before.
C12_FourTools ==
    \A i \in DOMAIN server.requests :
        ( /\ server.requests[i].pc = "done"
          /\ server.requests[i].request.body.method = Ascii("tools/list") ) =>
            /\ server.requests[i].handled.response.kind = "json"
            /\ server.requests[i].handled.response.json.result.kind = "tools"
            /\ Len(server.requests[i].handled.response.json.result.tools) = 4
            /\ { server.requests[i].handled.response.json.result.tools[j].name : j \in 1..4 }
                  = { Ascii("analyze_chat_history"), Ascii("ask_travel_advisor"),
                      Ascii("check_travel_route"), Ascii("calculate_budget") }

\* the tools are listed after another request was answered, by a server that
\* has no completion client
C12_Witness ==
    /\ Len(server.requests) = 2
    /\ server.boot.client = None
    /\ server.requests[1].pc = "done"
    /\ server.requests[2].pc = "done"
    /\ server.requests[2].after = 1
    /\ server.requests[2].request.body.method = Ascii("tools/list")
    /\ Len(server.requests[2].handled.response.json.result.tools) = 4

\* the tools are listed after a place search was answered, by a server that
\* has every credential
C12_SearchedWitness ==
    /\ Len(server.requests) = 2
    /\ server.boot.client # None
    /\ server.boot.gmaps # None
    /\ server.boot.KAKAO_API_KEY # <<>>
    /\ server.requests[1].pc = "done"
    /\ server.requests[1].oracle = PlaceFoundOracle
    /\ server.requests[2].pc = "done"
    /\ server.requests[2].after = 1
    /\ server.requests[2].request.body.method = Ascii("tools/list")

\* C16: whatever requests are in flight and however their handlers are
\* interleaved at their calls of the completion service and of the providers,
\* the module-level state (client, gmaps, the Kakao key, TOOLS_LIST, the
\* lexicons) is what it was when the server started, and every answered
\* request has the response that handle_mcp gives to that request alone with
\* the same replies.
C16_Isolated ==
    /\ server.module = server.boot
    /\ \A i \in DOMAIN server.requests :
          server.requests[i].pc = "done" =>
              server.requests[i].handled
                  = handle_mcp(server.requests[i].request, server.boot.client,
                               server.boot.KAKAO_API_KEY, server.requests[i].oracle)

\* a place search is suspended between its calls while a request that arrived
\* later has made its own calls, failed and been answered
C16_Witness ==
    /\ Len(server.requests) = 2
    /\ server.requests[1].pc = "running"
    /\ server.requests[1].oracle = PlaceFoundOracle
    /\ server.requests[1].at \in 1..(Len(server.requests[1].calls) - 1)
    /\ server.requests[2].pc = "done"
    /\ server.requests[2].handled.outcome.calls # <<>>
    /\ server.requests[2].handled.outcome.failed

\* the place search that was suspended is answered after the later request,
\* with the places it found
C16_ResumedWitness ==
    /\ Len(server.requests) = 2
    /\ server.requests[1].pc = "done"
    /\ server.requests[1].after = 1
    /\ server.requests[1].oracle = PlaceFoundOracle
    /\ \E k \in DOMAIN server.requests[1].handled.outcome.text :
          server.requests[1].handled.outcome.text[k].k = "entry"
    /\ server.requests[2].pc = "done"
    /\ server.requests[2].handled.outcome.failed

\* the table entries whose key is region, and those whose key is contained in
\* region or contains it
C22_Exact(region) == { i \in DOMAIN CITY_TO_COUNTRY : CITY_TO_COUNTRY[i][1] = region }
C22_Overlapping(region) ==
    { i \in DOMAIN CITY_TO_COUNTRY :
        \/ In(CITY_TO_COUNTRY[i][1], region)
        \/ In(region, CITY_TO_COUNTRY[i][1]) }
C22_First(S) == CHOOSE i \in S : \A j \in S : i <= j

\* C22: get_country_for_city returns the table value of the region when the
\* region, lower-cased or as given, is a key of CITY_TO_COUNTRY, whatever other
\* keys overlap it; otherwise the country of the first table entry whose key is
\* contained in the lower-cased region or contains it; and not-found exactly
\* when the region is no key and no key overlaps the lower-cased region.
C22_ExactThenFirstOverlap ==
    lastCall.made =>
        /\ C22_Exact(lower(lastCall.arg)) # {} =>
              \A i \in C22_Exact(lower(lastCall.arg)) :
                  lastCall.result = CITY_TO_COUNTRY[i][2]
        /\ (C22_Exact(lower(lastCall.arg)) = {} /\ C22_Exact(lastCall.arg) # {}) =>
              \A i \in C22_Exact(lastCall.arg) : lastCall.result = CITY_TO_COUNTRY[i][2]
        /\ ( /\ C22_Exact(lower(lastCall.arg)) = {}
             /\ C22_Exact(lastCall.arg) = {}
             /\ C22_Overlapping(lower(lastCall.arg)) # {} ) =>
              lastCall.result
                  = CITY_TO_COUNTRY[C22_First(C22_Overlapping(lower(lastCall.arg)))][2]
        /\ lastCall.result = None <=>
              /\ C22_Exact(lower(lastCall.arg)) = {}
              /\ C22_Exact(lastCall.arg) = {}
              /\ C22_Overlapping(lower(lastCall.arg)) = {}

\* a region that holds the keys of two countries is resolved to the country
\* of the key that comes first in the table
C22_Witness ==
    /\ lastCall.made
    /\ lastCall.arg = Ascii("Paris, Texas")
    /\ lastCall.result = Ascii("USA")
    /\ \E i, j \in C22_Overlapping(lower(lastCall.arg)) :
          CITY_TO_COUNTRY[i][2] # CITY_TO_COUNTRY[j][2]

\* a region that is a key only as given is resolved by that key, a region that
\* is part of a key by that key, and a region that no key overlaps is not found
C22_GivenWitness ==
    /\ lastCall.made /\ lastCall.arg = Ascii("LA") /\ lastCall.result = Ascii("USA")
    /\ firstCall.made /\ firstCall.arg = Ascii("york") /\ firstCall.result = Ascii("USA")
    /\ C22_Exact(lower(lastCall.arg)) = {}
C22_NotFoundWitness ==
    /\ lastCall.made /\ lastCall.arg = Hangul("gang nam") /\ lastCall.result = None

\* C25: two calls of extract_regions_hybrid with the same text, to which the
\* completion service gives the same reply (or with no completion service),
\* return the same list in the same order.
C25_SameList ==
    repeat.pc = "done" => repeat.second = repeat.first

\* the indices of candidate names among those the completion service returned
C21_Returned ==
    { i \in batch.reply.relevant_indices : i \in DOMAIN batch.place_names }

\* C21: a call of filter_relevant_places_batch with a client and with up to 50
\* candidate names sends prompts of at most 30 names each, every candidate
\* name is in one of the prompts, and when the completion service answers, the
\* result holds exactly the names whose indices it returned.
C21_AllPresentedInBatches ==
    (batch.pc = "done" /\ batch.client # None /\ batch.place_names # <<>>) =>
        /\ \A b \in DOMAIN batch.prompts : Len(batch.prompts[b]) <= 30
        /\ \A i \in DOMAIN batch.place_names :
              \E b \in DOMAIN batch.prompts :
                  \E k \in DOMAIN batch.prompts[b] :
                      batch.prompts[b][k].name = batch.place_names[i]
        /\ batch.reply.ok =>
              /\ Len(batch.result) = Cardinality(C21_Returned)
              /\ Range(batch.result) = { batch.place_names[i] : i \in C21_Returned }

\* the route branch of ask_travel_advisor was entered and the extractor
\* returned
C23_RouteAsked ==
    /\ mcp.pc = "done"
    /\ mcp.handled.tool = ask_travel_advisor
    /\ mcp.client # None
    /\ mcp.request.body.params.arguments.kind = "object"
    /\ mcp.oracle.type = TypeReply(Ascii("route"))
    /\ IsStr(mcp.request.body.params.arguments.question)
C23_Invocations ==
    Cardinality({ i \in DOMAIN mcp.handled.outcome.calls :
                    mcp.handled.outcome.calls[i] = "get_route_info" })
C23_Resolved ==
    get_route_info(mcp.oracle.start_regions[1], mcp.oracle.start_regions[2],
                   mcp.request.body.params.arguments.question,
                   mcp.request.body.params.arguments.question,
                   mcp.client, mcp.KAKAO_API_KEY, mcp.oracle.route)

\* C23: in the route branch of ask_travel_advisor get_route_info is called at
\* most once: with fewer than two extracted regions it is not called and the
\* answer is the clarification text; otherwise it is called once, with a
\* longest extracted region as start and a longest of the others as goal,
\* wherever the question mentions them, and its text is the answer.
C23_OnceWithLongest ==
    C23_RouteAsked =>
        /\ C23_Invocations <= 1
        /\ Len(mcp.oracle.start_regions) < 2 =>
              /\ C23_Invocations = 0
              /\ mcp.handled.outcome.text = Clarify
        /\ Len(mcp.oracle.start_regions) >= 2 =>
              /\ C23_Invocations = 1
              /\ \A i \in DOMAIN mcp.oracle.start_regions :
                    /\ Len(mcp.oracle.start_regions[1]) >= Len(mcp.oracle.start_regions[i])
                    /\ i >= 2 => Len(mcp.oracle.start_regions[2])
                                    >= Len(mcp.oracle.start_regions[i])
              /\ ~C23_Resolved.raised => mcp.handled.outcome.text = C23_Resolved.text

\* the question names the shorter region first, and the route is resolved from
\* the longer one to the shorter one
C23_Witness ==
    /\ C23_RouteAsked
    /\ mcp.request.body.params.arguments.question
          = Hangul("seo 'ul") \o Ascii(" ") \o Hangul("hae 'un dae")
    /\ C23_Invocations = 1
    /\ mcp.oracle.start_regions[1] = Hangul("hae 'un dae")
    /\ mcp.oracle.start_regions[2] = Hangul("seo 'ul")
    /\ ~C23_Resolved.raised
    /\ mcp.handled.outcome.text = C23_Resolved.text

\* one region is extracted, and the answer asks for start and goal
C23_ClarifyWitness ==
    /\ C23_RouteAsked
    /\ Len(mcp.oracle.start_regions) = 1
    /\ C23_Invocations = 0
    /\ mcp.handled.outcome.text = Clarify

\* the place branch of ask_travel_advisor was entered
C24_PlaceAsked ==
    /\ mcp.pc = "done"
    /\ mcp.handled.tool = ask_travel_advisor
    /\ mcp.client # None
    /\ mcp.request.body.params.arguments.kind = "object"
    /\ IsStr(mcp.request.body.params.arguments.question)
    /\ mcp.oracle.type.ok
    /\ mcp.oracle.type.type \notin { Ascii("guide"), Ascii("route") }
\* the extracted country context names Korea
C24_Korea ==
    /\ mcp.oracle.context.ok
    /\ IsStr(mcp.oracle.context.country)
    /\ lower(mcp.oracle.context.country)
          \in { Ascii("korea"), Ascii("south korea"), Hangul("han guk") }
\* the keywords that are processed: the first 5, the blank ones left out
C24_Processed ==
    { i \in DOMAIN mcp.oracle.keywords.keywords :
        i <= 5 /\ strip(mcp.oracle.keywords.keywords[i]) # <<>> }
C24_Runs(pipeline) ==
    Cardinality({ i \in DOMAIN mcp.handled.outcome.calls :
                    mcp.handled.outcome.calls[i] = pipeline })

\* C24: in the place branch of ask_travel_advisor the country context settles
\* the pipeline in every case: the keywords are extracted, and each processed
\* keyword is searched by search_domestic alone (one pass or two) when the
\* context names Korea, and by one call of search_international alone in
\* every other case: the extraction failed, or its reply names another
\* country or none.
C24_OnePipelinePerKeyword ==
    C24_PlaceAsked =>
        /\ Len(mcp.handled.outcome.calls) >= 3
        /\ ( /\ mcp.oracle.keywords.ok
             /\ \A i \in DOMAIN mcp.oracle.keywords.keywords :
                   IsStr(mcp.oracle.keywords.keywords[i]) ) =>
              IF C24_Korea
              THEN /\ C24_Runs("search_international") = 0
                   /\ C24_Runs("search_domestic") >= Cardinality(C24_Processed)
                   /\ C24_Runs("search_domestic") <= 2 * Cardinality(C24_Processed)
              ELSE /\ C24_Runs("search_domestic") = 0
                   /\ C24_Runs("search_international") = Cardinality(C24_Processed)

====
